---- MODULE Spec2Model ----
(***************************************************************************)
(* A model of the go-totp package (KEINOS/go-totp): Options, Secret, Key,  *)
(* URI, PEM persistence and time-windowed passcode validation.             *)
(*                                                                         *)
(* Strings are sequences of one-character strings, byte strings are        *)
(* sequences of 0..255, Go's uint is four 16-bit limbs.  A failed call is    *)
(* a record [ok |-> FALSE, err |-> <messages>].                            *)
(***************************************************************************)
EXTENDS Integers, Sequences, FiniteSets, TLC

\* ------------------------------------------------------------------------
\*  Bounds of the model
\* ------------------------------------------------------------------------

\* The clock and the custom times range over 0..MaxTime seconds.
MaxTime == 70

\* ------------------------------------------------------------------------
\*  Generic helpers
\* ------------------------------------------------------------------------

Nil == [nil |-> TRUE]

Ok(v) == [ok |-> TRUE, val |-> v]

\* An error is the chain of its messages, the outermost wrapper first.
Fail(msg) == [ok |-> FALSE, err |-> <<msg>>]

\* errors.Wrap(err, msg)
Wrap(err, msg) == <<msg>> \o err

RECURSIVE ConcatRange(_, _, _)
\* The concatenation of parts[lo..hi], halving the range.
ConcatRange(parts, lo, hi) ==
    IF lo > hi THEN <<>>
    ELSE IF lo = hi THEN parts[lo]
    ELSE ConcatRange(parts, lo, (lo + hi) \div 2)
             \o ConcatRange(parts, ((lo + hi) \div 2) + 1, hi)

\* strings.Join(parts, ""): the concatenation of a sequence of strings.
Concat(parts) == ConcatRange(parts, 1, Len(parts))

\* strings.Index, 1-based: the first position at which sub occurs in s; 0
\* stands for Go's -1.
Index(s, sub) ==
    LET hits == {j \in 1..(Len(s) - Len(sub) + 1) : SubSeq(s, j, j + Len(sub) - 1) = sub}
    IN  IF hits = {} THEN 0 ELSE CHOOSE j \in hits : \A h \in hits : j <= h

HasPrefix(s, p) == Len(s) >= Len(p) /\ SubSeq(s, 1, Len(p)) = p

TrimPrefix(s, p) == IF HasPrefix(s, p) THEN SubSeq(s, Len(p) + 1, Len(s)) ELSE s

\* strings.Cut: <<before, after, found>>.
Cut(s, sep) ==
    LET i == Index(s, sep)
    IN  IF i = 0 THEN <<s, <<>>, FALSE>>
        ELSE <<SubSeq(s, 1, i - 1), SubSeq(s, i + Len(sep), Len(s)), TRUE>>

RECURSIVE Split(_, _)
\* strings.Split for a non-empty separator.
Split(s, sep) ==
    LET c == Cut(s, sep)
    IN  IF c[3] THEN <<c[1]>> \o Split(c[2], sep) ELSE <<s>>

\* ------------------------------------------------------------------------
\*  Characters
\* ------------------------------------------------------------------------

DigitChars == <<"0", "1", "2", "3", "4", "5", "6", "7", "8", "9">>

HexChars == DigitChars \o <<"A", "B", "C", "D", "E", "F">>

LowerChars == <<"a", "b", "c", "d", "e", "f", "g", "h", "i", "j", "k", "l", "m",
                "n", "o", "p", "q", "r", "s", "t", "u", "v", "w", "x", "y", "z">>

UpperChars == <<"A", "B", "C", "D", "E", "F", "G", "H", "I", "J", "K", "L", "M",
                "N", "O", "P", "Q", "R", "S", "T", "U", "V", "W", "X", "Y", "Z">>

Range(f) == {f[i] : i \in DOMAIN f}

PosIn(seq, c) == CHOOSE i \in DOMAIN seq : seq[i] = c

DigitSet == Range(DigitChars)

LowerSet == Range(LowerChars)

UpperSet == Range(UpperChars)

\* The value of each decimal digit.
DigitValue == [c \in DigitSet |-> PosIn(DigitChars, c) - 1]

\* unicode.ToUpper on the lower-case letters.
UpperOf == [c \in LowerSet |-> UpperChars[PosIn(LowerChars, c)]]

IsDigit(c) == c \in DigitSet

IsAlnum(c) == c \in DigitSet \cup LowerSet \cup UpperSet

\* The ASCII codes of the non-alphanumeric characters the model uses.
AsciiCode ==
    [c \in {" ", "#", "$", "%", "&", "+", ",", "-", ".", "/", ":", ";", "=", "?", "@",
             "_", "~", "\n", "\\x7f"} |->
        CASE c = " " -> 32 [] c = "#" -> 35 [] c = "%" -> 37 [] c = "&" -> 38
          [] c = "+" -> 43 [] c = "-" -> 45 [] c = "." -> 46 [] c = "/" -> 47
          [] c = ":" -> 58 [] c = "=" -> 61 [] c = "?" -> 63 [] c = "@" -> 64
          [] c = "$" -> 36 [] c = "," -> 44 [] c = ";" -> 59 [] c = "_" -> 95
          [] c = "~" -> 126 [] c = "\n" -> 10 [] c = "\\x7f" -> 127]

\* U+017F, the long s: a lower-case letter outside ASCII whose upper case
\* is the ASCII letter S.
LongS == "\\u017f"

\* strings.ToUpper
ToUpper(s) ==
    [i \in DOMAIN s |->
        IF s[i] \in LowerSet THEN UpperOf[s[i]]
        ELSE IF s[i] = LongS THEN "S"
        ELSE s[i]]

\* ------------------------------------------------------------------------
\*  Go's uint (64 bits) as four 16-bit limbs, most significant first
\* ------------------------------------------------------------------------

LimbBase == 2 ^ 16

\* The uint of a natural below 2^31.
U(n) == <<0, 0, n \div LimbBase, n % LimbBase>>

UZero == U(0)

\* 2^32, the first value that does not fit in 32 bits.
UTwo32 == <<0, 1, 0, 0>>

\* math.MaxUint64
UMaxUint64 == <<LimbBase - 1, LimbBase - 1, LimbBase - 1, LimbBase - 1>>

\* The value fits in bitSize bits (bitSize is 32 or 64).
UFits(u, bitSize) == bitSize = 64 \/ (u[1] = 0 /\ u[2] = 0)

\* The value is below 2^31, so it is a natural the model can compute with.
UIsNat(u) == u[1] = 0 /\ u[2] = 0 /\ u[3] < LimbBase \div 2

UToNat(u) == u[3] * LimbBase + u[4]

\* Go's uint > comparison against math.MaxInt (2^63 - 1).
UAboveMaxInt(u) == u[1] >= LimbBase \div 2

RECURSIVE ULongDiv10(_, _)
\* Long division of a limb sequence by 10 with incoming remainder r:
\* <<quotient limbs, remainder>>.
ULongDiv10(limbs, r) ==
    IF limbs = <<>> THEN <<<<>>, r>>
    ELSE LET cur == r * LimbBase + Head(limbs)
             rest == ULongDiv10(Tail(limbs), cur % 10)
         IN  <<<<cur \div 10>> \o rest[1], rest[2]>>

RECURSIVE UMul10Add(_, _)
\* limbs * 10 + carry, least significant limb last: <<limbs, carry out>>.
UMul10Add(limbs, carry) ==
    IF limbs = <<>> THEN <<<<>>, carry>>
    ELSE LET n == Len(limbs)
             cur == limbs[n] * 10 + carry
             rest == UMul10Add(SubSeq(limbs, 1, n - 1), cur \div LimbBase)
         IN  <<rest[1] \o <<cur % LimbBase>>, rest[2]>>

\* ------------------------------------------------------------------------
\*  Decimal formatting and parsing (strconv)
\* ------------------------------------------------------------------------

RECURSIVE FormatUint(_)
\* strconv.FormatUint(n, 10)
FormatUint(u) ==
    LET d == ULongDiv10(u, 0)
    IN  IF d[1] = UZero THEN <<DigitChars[d[2] + 1]>>
        ELSE FormatUint(d[1]) \o <<DigitChars[d[2] + 1]>>

RECURSIVE ParseDigits(_, _)
\* The digits of s accumulated onto acc; Nil on overflow of 64 bits.
ParseDigits(s, acc) ==
    IF s = <<>> THEN acc
    ELSE LET m == UMul10Add(acc, DigitValue[Head(s)])
         IN  IF m[2] # 0 THEN Nil ELSE ParseDigits(Tail(s), m[1])

\* strconv.ParseUint(s, 10, bitSize): a syntax error for an empty string or a
\* character that is not a decimal digit, a range error for a value that does
\* not fit in bitSize bits.
ParseUint(s, bitSize) ==
    IF s = <<>> \/ \E i \in DOMAIN s : ~IsDigit(s[i]) THEN Fail("invalid syntax")
    ELSE LET v == ParseDigits(s, UZero)
         IN  IF v = Nil THEN Fail("value out of range")
             ELSE IF ~UFits(v, bitSize) THEN Fail("value out of range")
             ELSE Ok(v)

\* ------------------------------------------------------------------------
\*  encoding/base32, StdEncoding.WithPadding(NoPadding)
\* ------------------------------------------------------------------------

Base32Alphabet == UpperChars \o <<"2", "3", "4", "5", "6", "7">>

Base32Chars == Range(Base32Alphabet)

\* Encoding.decodeMap: the 5-bit value of each character of the alphabet.
Base32DecodeMap == [c \in Base32Chars |-> PosIn(Base32Alphabet, c) - 1]

\* src[i] of a zero-based index, 0 beyond the end.
At0(src, i) == IF i + 1 > Len(src) THEN 0 ELSE src[i + 1]

\* Character k (0..7) of the quantum encoding the 5 bytes of src from
\* zero-based offset o, as Encoding.Encode packs them.
Base32Quantum(src, o, k) ==
    LET b0 == At0(src, o)
        b1 == At0(src, o + 1)
        b2 == At0(src, o + 2)
        b3 == At0(src, o + 3)
        b4 == At0(src, o + 4)
    IN  CASE k = 0 -> b0 \div 8
          [] k = 1 -> (b0 % 8) * 4 + b1 \div 64
          [] k = 2 -> (b1 \div 2) % 32
          [] k = 3 -> (b1 % 2) * 16 + b2 \div 16
          [] k = 4 -> (b2 % 16) * 2 + b3 \div 128
          [] k = 5 -> (b3 \div 4) % 32
          [] k = 6 -> (b3 % 4) * 8 + b4 \div 32
          [] k = 7 -> b4 % 32

\* Encoding.EncodeToString without padding: ceil(8n/5) characters.
Base32Encode(bytes) ==
    [j \in 1..((8 * Len(bytes) + 4) \div 5) |->
        Base32Alphabet[Base32Quantum(bytes, 5 * ((j - 1) \div 8), (j - 1) % 8) + 1]]

\* Byte k (0..4) of the quantum decoded from the 8 values of dbuf from
\* zero-based offset o, as Encoding.decode packs them.
Base32Unpack(dbuf, o, k) ==
    LET d(i) == At0(dbuf, o + i)
    IN  CASE k = 0 -> (d(0) * 8 + d(1) \div 4) % 256
          [] k = 1 -> (d(1) * 64 + d(2) * 2 + d(3) \div 16) % 256
          [] k = 2 -> (d(3) * 16 + d(4) \div 2) % 256
          [] k = 3 -> (d(4) * 128 + d(5) * 4 + d(6) \div 8) % 256
          [] k = 4 -> (d(6) * 32 + d(7)) % 256

\* The bytes the decoder writes for a trailing quantum of dlen characters.
Base32TailBytes(dlen) ==
    CASE dlen = 7 -> 4 [] dlen = 5 -> 3 [] dlen = 4 -> 2 [] dlen = 2 -> 1
      [] OTHER -> 0

\* Encoding.DecodeString: a character outside the alphabet is corrupt input.
Base32Decode(str) ==
    IF \E i \in DOMAIN str : str[i] \notin Base32Chars
    THEN Fail("illegal base32 data")
    ELSE LET dbuf == [i \in DOMAIN str |-> Base32DecodeMap[str[i]]]
             n == 5 * (Len(str) \div 8) + Base32TailBytes(Len(str) % 8)
         IN  Ok([j \in 1..n |-> Base32Unpack(dbuf, 8 * ((j - 1) \div 5), (j - 1) % 5)])

\* ------------------------------------------------------------------------
\*  Secret (secret.go)
\* ------------------------------------------------------------------------

NewSecretBase32(base32string) ==
    LET decoded == Base32Decode(base32string)
    IN  IF ~decoded.ok
        THEN [ok |-> FALSE, err |-> Wrap(decoded.err, "failed to decode base32 string")]
        ELSE Ok(decoded.val)

\* Base32 with the padding of StdEncoding left on.
SecretBase32_padded(s) ==
    Base32Encode(s) \o [i \in 1..((8 - (Len(Base32Encode(s)) % 8)) % 8) |-> "="]

\* Secret.Base32()
SecretBase32(s) == Base32Encode(s)

\* The digits of math/big for a base above 36: 0-9, a-z, A-Z.
Base62Alphabet == DigitChars \o LowerChars \o UpperChars

encBase62 == 62

RECURSIVE LongDiv(_, _, _, _)
\* The digits of a number in base from, most significant first, divided by
\* by: <<the digits of the quotient, the remainder>>; carry is the remainder
\* so far.
LongDiv(digits, from, by, carry) ==
    LET step(cur, rest) == <<<<cur \div by>> \o rest[1], rest[2]>>
        next(cur) == step(cur, LongDiv(Tail(digits), from, by, cur % by))
    IN  IF digits = <<>> THEN <<<<>>, carry>> ELSE next(carry * from + Head(digits))

\* The digits without their leading zeros.
StripZeros(digits) ==
    IF \A i \in DOMAIN digits : digits[i] = 0 THEN <<>>
    ELSE SubSeq(digits, CHOOSE i \in DOMAIN digits :
                            digits[i] # 0 /\ \A j \in 1..(i - 1) : digits[j] = 0,
                Len(digits))

RECURSIVE Rebase(_, _, _)
\* The digits in base to of the number whose digits in base from are given:
\* none for zero, no leading zeros.
Rebase(digits, from, to) ==
    LET more(qr) == Rebase(qr[1], from, to) \o <<qr[2]>>
        convert(d) == IF d = <<>> THEN <<>> ELSE more(LongDiv(d, from, to, 0))
    IN  convert(StripZeros(digits))

\* Secret.Base62(): big.Int.SetBytes(s).Text(62)
SecretBase62(s) ==
    LET text(digits) ==
            IF digits = <<>> THEN <<"0">>
            ELSE [i \in DOMAIN digits |-> Base62Alphabet[digits[i] + 1]]
    IN  text(Rebase(s, 256, encBase62))

\* NewSecretBase62: big.Int.SetString(text, 62) takes a sign and at least
\* one digit and nothing else; Bytes() is the absolute value without
\* leading zero bytes.
NewSecretBase62(base62string) ==
    LET decode(body) ==
            IF body = <<>> \/ \E i \in DOMAIN body : body[i] \notin Range(Base62Alphabet)
            THEN Fail("failed to decode base62 string")
            ELSE Ok(Rebase([i \in DOMAIN body |-> PosIn(Base62Alphabet, body[i]) - 1],
                           encBase62, 256))
    IN  decode(IF base62string # <<>> /\ base62string[1] \in {"+", "-"}
               THEN Tail(base62string) ELSE base62string)

SecretBytes(s) == s

\* ------------------------------------------------------------------------
\*  Algorithm (algorithm.go)
\* ------------------------------------------------------------------------

cMD5 == <<"M", "D", "5">>

cSHA1 == <<"S", "H", "A", "1">>

cSHA256 == <<"S", "H", "A", "2", "5", "6">>

cSHA512 == <<"S", "H", "A", "5", "1", "2">>

\* The ids of github.com/pquerna/otp: AlgorithmSHA1, SHA256, SHA512, MD5.
otpAlgorithmSHA1 == 0

otpAlgorithmSHA256 == 1

otpAlgorithmSHA512 == 2

otpAlgorithmMD5 == 3

UnsupportedAlgo == -1

\* The panic of otp.Algorithm.Hash() and String() on a value that is none
\* of the four.
unreached == "panic: unreached"

OptionAlgorithmDefault == cSHA1

AlgorithmIsSupported(algo) == algo \in {cMD5, OptionAlgorithmDefault, cSHA256, cSHA512}

OTPAlgorithm(algo) ==
    CASE algo = cMD5 -> otpAlgorithmMD5
      [] algo = OptionAlgorithmDefault -> otpAlgorithmSHA1
      [] algo = cSHA256 -> otpAlgorithmSHA256
      [] algo = cSHA512 -> otpAlgorithmSHA512
      [] OTHER -> UnsupportedAlgo

AlgorithmString(algo) == ToUpper(algo)

\* NewAlgorithmStr(algo)
NewAlgorithmStr(algo) ==
    IF ToUpper(algo) \in {cMD5, cSHA1, cSHA256, cSHA512} THEN Ok(ToUpper(algo))
    ELSE Fail("unsupported algorithm. it should be MD5, SHA1, SHA256 or SHA512")

\* NewAlgorithmID(algoID)
NewAlgorithmID(algoID) ==
    CASE algoID = otpAlgorithmSHA1 -> Ok(cSHA1)
      [] algoID = otpAlgorithmSHA256 -> Ok(cSHA256)
      [] algoID = otpAlgorithmSHA512 -> Ok(cSHA512)
      [] algoID = otpAlgorithmMD5 -> Ok(cMD5)
      [] OTHER -> Fail("unsupported algorithm ID. it should be 0, 1, 2 or 3")

\* ID() with the zero value of otp.Algorithm for the names it does not know.
AlgorithmID_zeroValue(algo) ==
    CASE algo = cMD5 -> otpAlgorithmMD5
      [] algo = cSHA256 -> otpAlgorithmSHA256
      [] algo = cSHA512 -> otpAlgorithmSHA512
      [] OTHER -> otpAlgorithmSHA1

\* Algorithm.ID()
AlgorithmID(algo) ==
    CASE algo = cMD5 -> otpAlgorithmMD5
      [] algo = cSHA1 -> otpAlgorithmSHA1
      [] algo = cSHA256 -> otpAlgorithmSHA256
      [] algo = cSHA512 -> otpAlgorithmSHA512
      [] OTHER -> UnsupportedAlgo

\* ------------------------------------------------------------------------
\*  Digits (digits.go)
\* ------------------------------------------------------------------------

DigitsSix == U(6)

DigitsEight == U(8)

otpDigitsSix == 6

otpDigitsEight == 8

\* OTPDigits that hands the low bits of the count on as they are.
OTPDigits_carried(d) == d[4]

OTPDigits(d) ==
    CASE d = DigitsSix -> otpDigitsSix
      [] d = DigitsEight -> otpDigitsEight
      [] OTHER -> otpDigitsSix

DigitsString(d) == FormatUint(d)

\* NewDigitsInt that carries a negative value through as the uint of its
\* magnitude.
NewDigitsInt_magnitude(digits) == digits.mag

\* NewDigitsInt(digits); a Go int is its sign and the limbs of its
\* magnitude, and uint(digits) of an int that is not negative is its
\* magnitude.
NewDigitsInt(digits) == IF digits.neg THEN DigitsSix ELSE digits.mag

\* ------------------------------------------------------------------------
\*  StrToUint (totp.go)
\* ------------------------------------------------------------------------

bitSize == 32

StrToUint(number) ==
    LET u == ParseUint(number, bitSize)
    IN  IF ~u.ok THEN UZero ELSE u.val

NewDigitsStr(digits) == StrToUint(digits)

\* ------------------------------------------------------------------------
\*  Options (options.go)
\* ------------------------------------------------------------------------

OptionDigitsDefault == U(6)

OptionPeriodDefault == U(30)

OptionSecretSizeDefault == U(128)

OptionSkewDefault == U(1)

\* The zero value of the Options struct.
ZeroOptions ==
    [AccountName |-> <<>>, Algorithm |-> <<>>, Digits |-> UZero, ecdhCtx |-> <<>>,
     ecdhPrivateKey |-> Nil, ecdhPublicKey |-> Nil, Issuer |-> <<>>, kdf |-> Nil,
     Period |-> UZero, prependSecretInURI |-> FALSE, SecretSize |-> UZero, Skew |-> UZero]

\* SetDefault that leaves a zero Skew alone.
SetDefault_keepZeroSkew(opts) ==
    [opts EXCEPT
        !.Algorithm = IF opts.Algorithm = <<>> THEN OptionAlgorithmDefault ELSE @,
        !.Digits = IF opts.Digits = UZero THEN OptionDigitsDefault ELSE @,
        !.Period = IF opts.Period = UZero THEN OptionPeriodDefault ELSE @,
        !.SecretSize = IF opts.SecretSize = UZero THEN OptionSecretSizeDefault ELSE @]

\* SetDefault that sets the period whether it is zero or not.
SetDefault_alwaysPeriod(opts) ==
    [opts EXCEPT
        !.Algorithm = IF opts.Algorithm = <<>> THEN OptionAlgorithmDefault ELSE @,
        !.Digits = IF opts.Digits = UZero THEN OptionDigitsDefault ELSE @,
        !.Period = OptionPeriodDefault,
        !.SecretSize = IF opts.SecretSize = UZero THEN OptionSecretSizeDefault ELSE @,
        !.Skew = IF opts.Skew = UZero THEN OptionSkewDefault ELSE @]

\* Options.SetDefault()
SetDefault(opts) ==
    [opts EXCEPT
        !.Algorithm = IF opts.Algorithm = <<>> THEN OptionAlgorithmDefault ELSE @,
        !.Digits = IF opts.Digits = UZero THEN OptionDigitsDefault ELSE @,
        !.Period = IF opts.Period = UZero THEN OptionPeriodDefault ELSE @,
        !.SecretSize = IF opts.SecretSize = UZero THEN OptionSecretSizeDefault ELSE @,
        !.Skew = IF opts.Skew = UZero THEN OptionSkewDefault ELSE @]

NewOptions(issuer, accountName) ==
    IF issuer = <<>> \/ accountName = <<>>
    THEN Fail("issuer and accountName are required")
    ELSE Ok([SetDefault(ZeroOptions) EXCEPT !.Issuer = issuer, !.AccountName = accountName])

\* ------------------------------------------------------------------------
\*  Option functions (With*)
\* ------------------------------------------------------------------------

errNilOptions == "options is nil"

WithAlgorithm(algo) == [fn |-> "WithAlgorithm", algo |-> algo]

WithDigits(digits) == [fn |-> "WithDigits", digits |-> digits]

WithECDH(localKey, remoteKey, context) ==
    [fn |-> "WithECDH", localKey |-> localKey, remoteKey |-> remoteKey, context |-> context]

\* WithECDHKDF(userKDF): the function is kept by its name.
WithECDHKDF(userKDF) == [fn |-> "WithECDHKDF", userKDF |-> userKDF]

WithPeriod(period) == [fn |-> "WithPeriod", period |-> period]

WithSecretSize(size) == [fn |-> "WithSecretSize", size |-> size]

WithSecretQueryFirst(choice) == [fn |-> "WithSecretQueryFirst", choice |-> choice]

WithSkew(skew) == [fn |-> "WithSkew", skew |-> skew]

\* The panic of a write through a nil pointer.
nilDereference == "panic: runtime error: invalid memory address or nil pointer dereference"

\* Calling the closure an option function returned on opts (Nil: a nil
\* pointer): val is the Options behind the pointer after the call, err the
\* error when there is one.  WithSecretQueryFirst writes through the pointer
\* without looking at it, which panics on nil.
ApplyOption(fn, opts) ==
    IF fn.fn = "WithSecretQueryFirst"
    THEN (IF opts = Nil
          THEN [ok |-> FALSE, err |-> <<nilDereference>>, val |-> opts]
          ELSE Ok([opts EXCEPT !.prependSecretInURI = fn.choice]))
    ELSE IF opts = Nil THEN [ok |-> FALSE, err |-> <<errNilOptions>>, val |-> opts]
    ELSE CASE fn.fn = "WithAlgorithm" ->
                IF ~AlgorithmIsSupported(fn.algo)
                THEN [ok |-> FALSE,
                      err |-> <<"unsupported algorithm: " \o ToString(AlgorithmString(fn.algo))>>,
                      val |-> opts]
                ELSE Ok([opts EXCEPT !.Algorithm = fn.algo])
           [] fn.fn = "WithDigits" -> Ok([opts EXCEPT !.Digits = fn.digits])
           [] fn.fn = "WithECDH" ->
                Ok([opts EXCEPT !.ecdhPrivateKey = fn.localKey,
                                !.ecdhPublicKey = fn.remoteKey,
                                !.ecdhCtx = fn.context])
           [] fn.fn = "WithECDHKDF" -> Ok([opts EXCEPT !.kdf = fn.userKDF])
           [] fn.fn = "WithPeriod" -> Ok([opts EXCEPT !.Period = fn.period])
           [] fn.fn = "WithSecretSize" -> Ok([opts EXCEPT !.SecretSize = fn.size])
           [] fn.fn = "WithSkew" -> Ok([opts EXCEPT !.Skew = fn.skew])

RECURSIVE ApplyOptions(_, _)
\* The loop of GenerateKey over opts: stops at the first option that fails.
ApplyOptions(fns, opts) ==
    IF fns = <<>> THEN Ok(opts)
    ELSE LET r == ApplyOption(Head(fns), opts)
         IN  IF ~r.ok THEN [ok |-> FALSE, err |-> Wrap(r.err, "failed to apply custom options")]
             ELSE ApplyOptions(Tail(fns), r.val)

\* ------------------------------------------------------------------------
\*  crypto/ecdh: Diffie-Hellman in a small prime-order setting
\* ------------------------------------------------------------------------

\* Each curve is a multiplicative group modulo a prime p with generator g.
Curves ==
    [c \in {"P256", "X25519"} |->
        IF c = "P256" THEN [p |-> 23, g |-> 5] ELSE [p |-> 11, g |-> 2]]

RECURSIVE PowMod(_, _, _)
PowMod(b, e, m) == IF e = 0 THEN 1 ELSE (b * PowMod(b, e - 1, m)) % m

\* curve.GenerateKey with the scalar d the random source yields.
ecdhPrivateKey(curve, d) == [curve |-> curve, d |-> d]

\* PrivateKey.PublicKey()
ecdhPublicKey(priv) ==
    [curve |-> priv.curve, q |-> PowMod(Curves[priv.curve].g, priv.d, Curves[priv.curve].p)]

\* PrivateKey.ECDH(remote): the shared secret bytes, or the curve mismatch.
ECDH(priv, remote) ==
    IF priv.curve # remote.curve
    THEN Fail("crypto/ecdh: private key and public key curves do not match")
    ELSE Ok(<<PowMod(remote.q, priv.d, Curves[priv.curve].p)>>)

\* ------------------------------------------------------------------------
\*  blake3.DeriveKey: a deterministic digest of (context, material)
\* ------------------------------------------------------------------------

CharCode(c) ==
    IF c \in DigitSet THEN 47 + PosIn(DigitChars, c)
    ELSE IF c \in UpperSet THEN 64 + PosIn(UpperChars, c)
    ELSE IF c \in LowerSet THEN 96 + PosIn(LowerChars, c)
    ELSE AsciiCode[c]

RECURSIVE Digest(_, _)
\* A rolling digest of a sequence of numbers below 256.
Digest(nums, acc) ==
    IF nums = <<>> THEN acc
    ELSE Digest(Tail(nums), (acc * 31 + Head(nums) + 1) % 65521)

\* blake3.DeriveKey(context, material, out): fills all len(out) bytes.
blake3DeriveKey(context, material, outLen) ==
    LET seed == Digest(material, Digest([i \in DOMAIN context |-> CharCode(context[i])], 7))
    IN  [i \in 1..outLen |-> (seed + 37 * i) % 256]

\* OptionKDFDefault(secret, ctx, outLen): the KDF of options.go, which refuses
\* an output length of zero or above MaxInt.
OptionKDFDefault(secret, ctx, outLen) ==
    IF UAboveMaxInt(outLen) THEN Fail("output length too large")
    ELSE IF outLen = UZero THEN Fail("invalid output length: 0")
    ELSE Ok(blake3DeriveKey(ctx, secret, UToNat(outLen)))

\* commonKDF(secret, ctx, outLen), the PBKDF2 function a caller hands to
\* WithECDHKDF: it refuses a context below 8 bytes and an output length of
\* zero or above MaxInt, and derives other bytes than BLAKE3 does.
commonKDF(secret, ctx, outLen) ==
    IF Len(ctx) < 8
    THEN Fail("context too short. PBKDF2 requires at least 8 bytes")
    ELSE IF outLen = UZero \/ UAboveMaxInt(outLen)
    THEN Fail("output length is out of valid range for int conversion")
    ELSE Ok([i \in 1..UToNat(outLen) |->
                (Digest([j \in DOMAIN ctx |-> CharCode(ctx[j])], Digest(secret, 3)) + 53 * i)
                    % 256])

\* ------------------------------------------------------------------------
\*  github.com/pquerna/otp/totp.Generate
\* ------------------------------------------------------------------------

\* The bytes the random source yields for seed rnd.
RandRead(rnd, n) == [i \in 1..n |-> (rnd + 11 * i) % 256]

\* totp.Generate(opts): the Base32 secret of the generated key.  A given
\* opts.Secret is stored as it is, an empty one is replaced by SecretSize
\* random bytes (20 when SecretSize is 0).
totpGenerate(opts, rnd) ==
    IF opts.Issuer = <<>> THEN Fail("Issuer must be set")
    ELSE IF opts.AccountName = <<>> THEN Fail("AccountName must be set")
    ELSE IF Len(opts.Secret) = 0 /\ ~UIsNat(opts.SecretSize)
    THEN Fail("panic: makeslice: len out of range")
    ELSE IF opts.Algorithm = UnsupportedAlgo THEN Fail(unreached)
    ELSE LET size == IF opts.SecretSize = UZero THEN 20 ELSE UToNat(opts.SecretSize)
         IN  IF Len(opts.Secret) # 0 THEN Ok(Base32Encode(opts.Secret))
             ELSE Ok(Base32Encode(RandRead(rnd, size)))

\* ------------------------------------------------------------------------
\*  Key constructors (key.go)
\* ------------------------------------------------------------------------

\* The outcome of a constructor: the Key or the error, and the external
\* primitives it invoked on the way, in order.
KeyResult(k, calls) == [ok |-> TRUE, val |-> k, calls |-> calls]

KeyError(err, calls) == [ok |-> FALSE, err |-> err, calls |-> calls]

\* internalSec that drops the error of ECDH and stays empty.
internalSec_ignoreEcdhError(options) ==
    IF options.ecdhPrivateKey # Nil /\ options.ecdhPublicKey # Nil
    THEN LET ecdhSecret == ECDH(options.ecdhPrivateKey, options.ecdhPublicKey)
         IN  IF ~ecdhSecret.ok
             THEN KeyResult(<<>>, <<"ECDH">>)
             ELSE IF ~UIsNat(options.SecretSize)
             THEN KeyError(<<"panic: makeslice: len out of range">>, <<"ECDH">>)
             ELSE KeyResult(blake3DeriveKey(options.ecdhCtx, ecdhSecret.val,
                                            UToNat(options.SecretSize)),
                            <<"ECDH", "DeriveKey">>)
    ELSE KeyResult(<<>>, <<>>)

\* The first half of GenerateKeyCustom: internalSec, the secret handed to
\* totp.Generate.  It stays empty unless both ECDH keys are set.
internalSec(options) ==
    IF options.ecdhPrivateKey # Nil /\ options.ecdhPublicKey # Nil
    THEN LET ecdhSecret == ECDH(options.ecdhPrivateKey, options.ecdhPublicKey)
         IN  IF ~ecdhSecret.ok
             THEN KeyError(Wrap(ecdhSecret.err, "failed to generate ECDH shared secret"),
                           <<"ECDH">>)
             ELSE IF ~UIsNat(options.SecretSize)
             THEN KeyError(<<"panic: makeslice: len out of range">>, <<"ECDH">>)
             ELSE KeyResult(blake3DeriveKey(options.ecdhCtx, ecdhSecret.val,
                                            UToNat(options.SecretSize)),
                            <<"ECDH", "DeriveKey">>)
    ELSE KeyResult(<<>>, <<>>)

GenerateKeyCustom(options, rnd) ==
    LET sec == internalSec(options)
    IN  IF ~sec.ok THEN sec
        ELSE LET tmpOpt == [Issuer |-> options.Issuer,
                            AccountName |-> options.AccountName,
                            Period |-> options.Period,
                            SecretSize |-> options.SecretSize,
                            Secret |-> sec.val,
                            Digits |-> OTPDigits(options.Digits),
                            Algorithm |-> OTPAlgorithm(options.Algorithm)]
                 keyOrig == totpGenerate(tmpOpt, rnd)
                 calls == sec.calls \o <<"totpGenerate">>
             IN  IF ~keyOrig.ok
                 THEN KeyError(Wrap(keyOrig.err, "failed to generate key"), calls)
                 ELSE LET secret == NewSecretBase32(keyOrig.val)
                      IN  IF ~secret.ok
                          THEN KeyError(Wrap(secret.err, "failed to create secret"), calls)
                          ELSE KeyResult([Secret |-> secret.val, Options |-> options], calls)

\* GenerateKey that goes on with the default options when an option fails.
GenerateKey_ignoreOptionError(issuer, accountName, opts, rnd) ==
    LET optsCustom == NewOptions(issuer, accountName)
    IN  IF ~optsCustom.ok
        THEN KeyError(Wrap(optsCustom.err, "failed to create options during key generation"),
                      <<>>)
        ELSE LET applied == ApplyOptions(opts, optsCustom.val)
             IN  IF ~applied.ok THEN GenerateKeyCustom(optsCustom.val, rnd)
                 ELSE GenerateKeyCustom(applied.val, rnd)

\* GenerateKey(issuer, accountName, opts...)
GenerateKey(issuer, accountName, opts, rnd) ==
    LET optsCustom == NewOptions(issuer, accountName)
    IN  IF ~optsCustom.ok
        THEN KeyError(Wrap(optsCustom.err, "failed to create options during key generation"),
                      <<>>)
        ELSE LET applied == ApplyOptions(opts, optsCustom.val)
             IN  IF ~applied.ok THEN KeyError(applied.err, <<>>)
                 ELSE GenerateKeyCustom(applied.val, rnd)

\* ------------------------------------------------------------------------
\*  github.com/pquerna/otp: the HMAC-OTP primitive
\* ------------------------------------------------------------------------

\* hotp.GenerateCodeCustom(secret, counter, opts).  The passcode is the
\* HMAC-OTP value of (secret bytes, counter, digits, algorithm), kept as that
\* tuple: two passcodes are equal exactly when all four agree.
hotpGenerateCodeCustom(secret, counter, digits, algorithm) ==
    LET secretBytes == Base32Decode(ToUpper(secret))
    IN  IF ~secretBytes.ok \/ (Len(secret) % 8) \in {1, 3, 6}
        THEN Fail("Decoding of secret as base32 failed.")
        ELSE IF algorithm = UnsupportedAlgo THEN Fail(unreached)
        ELSE Ok([secret |-> secretBytes.val, counter |-> counter,
                 digits |-> digits, algorithm |-> algorithm])

\* The number of characters of a passcode.
PasscodeLen(passcode) == passcode.digits

\* floor(t / Period) as totp computes it: a zero period counts as 30.
TimeCounter(t, period) ==
    LET p == IF period = UZero THEN U(30) ELSE period
    IN  IF UIsNat(p) THEN t \div UToNat(p) ELSE 0

\* totp.GenerateCodeCustom(secret, t, opts)
totpGenerateCodeCustom(secret, t, opts) ==
    hotpGenerateCodeCustom(secret, TimeCounter(t, opts.Period), opts.Digits, opts.Algorithm)

\* The counters totp.ValidateCustom tries: the current one, then one more
\* and one less for every step of the skew.
SkewCounters(counter, skew) == {counter + i : i \in (0 - skew)..skew}

\* totp.ValidateCustom(passcode, secret, t, opts): valid when the passcode
\* is the code of one of the counters; the error of the primitive otherwise.
totpValidateCustom(passcode, secret, t, opts) ==
    LET counter == TimeCounter(t, opts.Period)
        first == hotpGenerateCodeCustom(secret, counter, opts.Digits, opts.Algorithm)
    IN  IF PasscodeLen(passcode) # opts.Digits
        THEN [valid |-> FALSE, err |-> <<"Input length unexpected">>]
        ELSE IF ~first.ok THEN [valid |-> FALSE, err |-> first.err]
        ELSE [valid |-> \E c \in SkewCounters(counter, UToNat(opts.Skew)) :
                            [first.val EXCEPT !.counter = c] = passcode,
              err |-> <<>>]

\* ------------------------------------------------------------------------
\*  Validate / ValidateCustom (totp.go) and the Key methods (key.go)
\* ------------------------------------------------------------------------

\* ValidateCustom that hands the primitive no skew.
ValidateCustom_noSkew(passcode, secret, validationTime, options) ==
    LET r == totpValidateCustom(passcode, secret, validationTime,
                                [Period |-> options.Period,
                                 Skew |-> UZero,
                                 Digits |-> OTPDigits(options.Digits),
                                 Algorithm |-> OTPAlgorithm(options.Algorithm)])
    IN  IF r.err = <<unreached>> THEN Fail(unreached)
        ELSE IF ~r.valid \/ r.err # <<>> THEN Ok(FALSE) ELSE Ok(TRUE)

\* ValidateCustom that tells the error of the primitive from a passcode that
\* is not valid with "and" instead of "or".
ValidateCustom_errorAndInvalid(passcode, secret, validationTime, options) ==
    LET r == totpValidateCustom(passcode, secret, validationTime,
                                [Period |-> options.Period,
                                 Skew |-> options.Skew,
                                 Digits |-> OTPDigits(options.Digits),
                                 Algorithm |-> OTPAlgorithm(options.Algorithm)])
    IN  IF r.err = <<unreached>> THEN Fail(unreached)
        ELSE IF ~r.valid /\ r.err # <<>> THEN Ok(FALSE) ELSE Ok(TRUE)

\* ValidateCustom(passcode, secret, validationTime, options): the boolean it
\* returns, or the panic of the primitive, which passes through it.
ValidateCustom(passcode, secret, validationTime, options) ==
    LET r == totpValidateCustom(passcode, secret, validationTime,
                                [Period |-> options.Period,
                                 Skew |-> options.Skew,
                                 Digits |-> OTPDigits(options.Digits),
                                 Algorithm |-> OTPAlgorithm(options.Algorithm)])
    IN  IF r.err = <<unreached>> THEN Fail(unreached)
        ELSE IF ~r.valid \/ r.err # <<>> THEN Ok(FALSE) ELSE Ok(TRUE)

\* Validate reads the clock: validationTime := time.Now().
Validate(passcode, secret, options, timeNow) ==
    ValidateCustom(passcode, secret, timeNow, options)

\* PassCodeCustom that leaves the period of the primitive at its default.
KeyPassCodeCustom_defaultPeriod(k, genTime) ==
    totpGenerateCodeCustom(SecretBase32(k.Secret), genTime,
                           [Period |-> UZero,
                            Skew |-> k.Options.Skew,
                            Digits |-> OTPDigits(k.Options.Digits),
                            Algorithm |-> OTPAlgorithm(k.Options.Algorithm)])

KeyPassCodeCustom(k, genTime) ==
    totpGenerateCodeCustom(SecretBase32(k.Secret), genTime,
                           [Period |-> k.Options.Period,
                            Skew |-> k.Options.Skew,
                            Digits |-> OTPDigits(k.Options.Digits),
                            Algorithm |-> OTPAlgorithm(k.Options.Algorithm)])

\* PassCode reads the clock: time.Now().UTC().
KeyPassCode(k, timeNow) ==
    totpGenerateCodeCustom(SecretBase32(k.Secret), timeNow,
                           [Period |-> k.Options.Period,
                            Skew |-> k.Options.Skew,
                            Digits |-> OTPDigits(k.Options.Digits),
                            Algorithm |-> OTPAlgorithm(k.Options.Algorithm)])

KeyValidate(k, passcode, timeNow) ==
    Validate(passcode, SecretBase32(k.Secret), k.Options, timeNow)

KeyValidateCustom(k, passcode, validationTime) ==
    ValidateCustom(passcode, SecretBase32(k.Secret), validationTime, k.Options)

\* ------------------------------------------------------------------------
\*  net/url as uri.go and key.go use it: escaping, Parse, Query, String
\* ------------------------------------------------------------------------

\* The character of each byte value; a byte outside the model's alphabet
\* is kept as one opaque character.
CodeChar ==
    [n \in 0..255 |->
        LET known == {c \in DigitSet \cup LowerSet \cup UpperSet \cup DOMAIN AsciiCode :
                          CharCode(c) = n}
        IN  IF known = {} THEN "\\x" ELSE CHOOSE c \in known : TRUE]

\* ishex / unhex
ishex(c) == c \in DigitSet \cup {"A", "B", "C", "D", "E", "F", "a", "b", "c", "d", "e", "f"}

unhex(c) ==
    IF c \in DigitSet THEN DigitValue[c]
    ELSE IF c \in UpperSet THEN 9 + PosIn(UpperChars, c)
    ELSE 9 + PosIn(LowerChars, c)

\* shouldEscape(c, mode) for the modes "path", "host" and "query"
\* (encodePath, encodeHost, encodeQueryComponent).
shouldEscape(c, mode) ==
    IF IsAlnum(c) \/ c \in {"-", "_", ".", "~"} THEN FALSE
    ELSE IF mode = "host" /\ c \in {"$", "&", "+", ",", ";", "=", ":"} THEN FALSE
    ELSE IF c \in {"$", "&", "+", ",", "/", ":", ";", "=", "?", "@"}
    THEN (IF mode = "path" THEN c = "?" ELSE TRUE)
    ELSE TRUE

\* escape(s, mode): %XX with upper-case hex digits, "+" for a space of a
\* query component.
escape(s, mode) ==
    Concat([i \in DOMAIN s |->
        IF ~shouldEscape(s[i], mode) THEN <<s[i]>>
        ELSE IF s[i] = " " /\ mode = "query" THEN <<"+">>
        ELSE <<"%", HexChars[(CharCode(s[i]) \div 16) + 1],
                    HexChars[(CharCode(s[i]) % 16) + 1]>>])

\* The positions of s that start a malformed percent escape.
BadEscapes(s) ==
    {i \in DOMAIN s : s[i] = "%" /\ (i + 2 > Len(s) \/ ~ishex(s[i + 1]) \/ ~ishex(s[i + 2]))}

\* The character sequence position i of s contributes: the decoded byte at
\* a percent sign, nothing at the two hex digits after it.
unescapeAt(s, i, mode) ==
    IF s[i] = "%" THEN <<CodeChar[unhex(s[i + 1]) * 16 + unhex(s[i + 2])]>>
    ELSE IF (i > 1 /\ s[i - 1] = "%") \/ (i > 2 /\ s[i - 2] = "%") THEN <<>>
    ELSE IF s[i] = "+" /\ mode = "query" THEN <<" ">>
    ELSE <<s[i]>>

\* unescape(s, mode): a malformed escape is an error, and so is, in a host,
\* an escape of a byte below 0x80 other than %25 or a character that has to
\* be escaped.
unescape(s, mode) ==
    IF BadEscapes(s) # {} THEN Fail("invalid URL escape")
    ELSE IF mode = "host"
            /\ \E i \in DOMAIN s : s[i] = "%" /\ unhex(s[i + 1]) < 8
                                   /\ SubSeq(s, i, i + 2) # <<"%", "2", "5">>
    THEN Fail("invalid URL escape")
    ELSE IF mode = "host" /\ \E i \in DOMAIN s : s[i] # "%" /\ shouldEscape(s[i], "host")
    THEN Fail("invalid character in host name")
    ELSE Ok(Concat([i \in DOMAIN s |-> unescapeAt(s, i, mode)]))

\* strings.ToLower
ToLower(s) ==
    [i \in DOMAIN s |-> IF s[i] \in UpperSet THEN LowerChars[PosIn(UpperChars, s[i])] ELSE s[i]]

RECURSIVE getSchemeFrom(_, _)
\* getScheme(rawURL): <<scheme, rest>>, or the error of a leading colon.
getSchemeFrom(rawURL, i) ==
    IF i > Len(rawURL) THEN Ok(<<<<>>, rawURL>>)
    ELSE IF rawURL[i] \in LowerSet \cup UpperSet THEN getSchemeFrom(rawURL, i + 1)
    ELSE IF IsDigit(rawURL[i]) \/ rawURL[i] \in {"+", "-", "."}
    THEN (IF i = 1 THEN Ok(<<<<>>, rawURL>>) ELSE getSchemeFrom(rawURL, i + 1))
    ELSE IF rawURL[i] = ":"
    THEN (IF i = 1 THEN Fail("missing protocol scheme")
          ELSE Ok(<<SubSeq(rawURL, 1, i - 1), SubSeq(rawURL, i + 1, Len(rawURL))>>))
    ELSE Ok(<<<<>>, rawURL>>)

\* strings.LastIndex for a one-character separator, 0 when none.
LastIndex(s, c) ==
    IF \E i \in DOMAIN s : s[i] = c
    THEN CHOOSE i \in DOMAIN s : s[i] = c /\ \A j \in (i + 1)..Len(s) : s[j] # c
    ELSE 0

\* parseAuthority(authority): the host (with its port) of user@host:port.
\* A port has to be decimal and the user information may hold only the
\* characters RFC 3986 allows; IPv6 literals are left out.
parseAuthority(authority) ==
    LET at == LastIndex(authority, "@")
        host == SubSeq(authority, at + 1, Len(authority))
        userinfo == SubSeq(authority, 1, at - 1)
        colon == LastIndex(host, ":")
    IN  IF colon # 0 /\ \E i \in (colon + 1)..Len(host) : ~IsDigit(host[i])
        THEN Fail("invalid port after host")
        ELSE IF at # 0 /\ \E i \in DOMAIN userinfo :
                              ~(IsAlnum(userinfo[i])
                                \/ userinfo[i] \in {"-", ".", "_", ":", "~", "$", "&", "+",
                                                    ",", ";", "=", "%", "@"})
        THEN Fail("net/url: invalid userinfo")
        ELSE unescape(host, "host")

\* The URL after the scheme and the query are cut off: authority and path.
parseRest(scheme, rest, rawQuery, fragment) ==
    LET url == [Scheme |-> scheme, Opaque |-> <<>>, Host |-> <<>>, Path |-> <<>>,
                RawQuery |-> rawQuery, Fragment |-> fragment]
        withPath(path) == IF ~path.ok THEN path ELSE Ok([url EXCEPT !.Path = path.val])
        withHost(host, path) ==
            IF ~host.ok THEN host
            ELSE IF ~path.ok THEN path
            ELSE Ok([url EXCEPT !.Host = host.val, !.Path = path.val])
        authorityAt(after, i) ==
            withHost(parseAuthority(IF i = 0 THEN after ELSE SubSeq(after, 1, i - 1)),
                     unescape(IF i = 0 THEN <<>> ELSE SubSeq(after, i, Len(after)), "path"))
        authority(after) == authorityAt(after, Index(after, <<"/">>))
    IN  IF ~HasPrefix(rest, <<"/">>) /\ scheme # <<>>
        THEN Ok([url EXCEPT !.Opaque = rest])
        ELSE IF ~HasPrefix(rest, <<"/">>) /\ Index(Cut(rest, <<"/">>)[1], <<":">>) # 0
        THEN Fail("first path segment in URL cannot contain colon")
        ELSE IF (scheme # <<>> \/ ~HasPrefix(rest, <<"/", "/", "/">>))
                /\ HasPrefix(rest, <<"/", "/">>)
        THEN authority(SubSeq(rest, 3, Len(rest)))
        ELSE withPath(unescape(rest, "path"))

\* url.Parse(rawURL)
Parse(rawURL) ==
    LET withFragment(parsed, fragment) ==
            IF ~parsed.ok THEN parsed
            ELSE IF ~fragment.ok THEN fragment
            ELSE Ok([parsed.val EXCEPT !.Fragment = fragment.val])
        withQuery(scheme, rest, forceQuery, q, frag) ==
            withFragment(parseRest(scheme,
                                   IF forceQuery THEN SubSeq(rest, 1, Len(rest) - 1) ELSE q[1],
                                   IF forceQuery THEN <<>> ELSE q[2], <<>>),
                         unescape(frag, "path"))
        afterScheme(scheme, frag) ==
            IF ~scheme.ok THEN scheme
            ELSE withQuery(ToLower(scheme.val[1]), scheme.val[2],
                           /\ scheme.val[2] # <<>>
                           /\ scheme.val[2][Len(scheme.val[2])] = "?"
                           /\ Index(scheme.val[2], <<"?">>) = Len(scheme.val[2]),
                           Cut(scheme.val[2], <<"?">>), frag)
        parse(u, frag) ==
            IF \E i \in DOMAIN u : CharCode(u[i]) < 32 \/ CharCode(u[i]) = 127
            THEN Fail("net/url: invalid control character in URL")
            ELSE IF u = <<"*">>
            THEN Ok([Scheme |-> <<>>, Opaque |-> <<>>, Host |-> <<>>, Path |-> u,
                     RawQuery |-> <<>>, Fragment |-> <<>>])
            ELSE afterScheme(getSchemeFrom(u, 1), frag)
        cutFragment(frag) == parse(frag[1], frag[2])
    IN  cutFragment(Cut(rawURL, <<"#">>))

\* One key=value piece of a query: <<key, value>>, or <<>> when ParseQuery
\* skips it (empty, holding a semicolon, or with a malformed escape).
queryPair(piece) ==
    LET pair(k, v) ==
            IF piece = <<>> \/ Index(piece, <<";">>) # 0 \/ ~k.ok \/ ~v.ok THEN <<>>
            ELSE <<k.val, v.val>>
        cut(kv) == pair(unescape(kv[1], "query"), unescape(kv[2], "query"))
    IN  cut(Cut(piece, <<"=">>))

\* URL.Query(): the key=value pairs of the raw query, in order.
Query(url) ==
    LET pairs(pieces) ==
            SelectSeq([i \in DOMAIN pieces |-> queryPair(pieces[i])], LAMBDA p : p # <<>>)
    IN  pairs(Split(url.RawQuery, <<"&">>))

\* Values.Get(key): the first value of the key, "" without one.
Get(values, name) ==
    LET hits == SelectSeq(values, LAMBDA p : p[1] = name)
    IN  IF hits = <<>> THEN <<>> ELSE hits[1][2]

RECURSIVE JoinWith(_, _)
\* strings.Join(parts, sep)
JoinWith(parts, sep) ==
    IF parts = <<>> THEN <<>>
    ELSE IF Len(parts) = 1 THEN parts[1]
    ELSE parts[1] \o sep \o JoinWith(Tail(parts), sep)

\* Values.Encode() of single-valued keys; sortedPairs lists them by key.
Encode(sortedPairs) ==
    JoinWith([i \in DOMAIN sortedPairs |->
                 escape(sortedPairs[i][1], "query") \o <<"=">>
                     \o escape(sortedPairs[i][2], "query")],
             <<"&">>)

\* a < b for Go strings: the order of sort.Strings.
StringLess(a, b) ==
    \E i \in 1..(Len(b)) :
        /\ \A j \in 1..(i - 1) : j <= Len(a) /\ a[j] = b[j]
        /\ i - 1 <= Len(a)
        /\ (i > Len(a) \/ CharCode(a[i]) < CharCode(b[i]))

\* The pairs of url.Values in the order Encode() writes them: by key, the
\* values of one key in the order they were added.
SortedPairs(values) ==
    LET rank(i) ==
            Cardinality({j \in DOMAIN values :
                            \/ StringLess(values[j][1], values[i][1])
                            \/ values[j][1] = values[i][1] /\ j <= i})
    IN  [r \in DOMAIN values |-> values[CHOOSE i \in DOMAIN values : rank(i) = r]]

\* URL.String() of a URL with a scheme, a host, a path and a raw query.
URLString(url) ==
    LET string(path) ==
            url.Scheme \o <<":">>
            \o (IF url.Host # <<>> \/ url.Path # <<>> THEN <<"/", "/">> ELSE <<>>)
            \o escape(url.Host, "host")
            \o (IF path # <<>> /\ path[1] # "/" /\ url.Host # <<>> THEN <<"/">> ELSE <<>>)
            \o path
            \o (IF url.RawQuery # <<>> THEN <<"?">> \o url.RawQuery ELSE <<>>)
    IN  string(escape(url.Path, "path"))

\* ------------------------------------------------------------------------
\*  URI (uri.go)
\* ------------------------------------------------------------------------

bitSize64 == 64

sOtpauth == <<"o", "t", "p", "a", "u", "t", "h">>

sTotp == <<"t", "o", "t", "p">>

\* The names of the query parameters.
queryKey ==
    [issuer |-> <<"i", "s", "s", "u", "e", "r">>,
     algorithm |-> <<"a", "l", "g", "o", "r", "i", "t", "h", "m">>,
     digits |-> <<"d", "i", "g", "i", "t", "s">>,
     period |-> <<"p", "e", "r", "i", "o", "d">>,
     secret |-> <<"s", "e", "c", "r", "e", "t">>]

URIScheme(u) ==
    LET scheme(parsedURI) == IF ~parsedURI.ok THEN <<>> ELSE parsedURI.val.Scheme
    IN  scheme(Parse(u))

URIHost(u) ==
    LET host(parsedURI) == IF ~parsedURI.ok THEN <<>> ELSE parsedURI.val.Host
    IN  host(Parse(u))

URIPath(u) ==
    LET path(parsedURI) == IF ~parsedURI.ok THEN <<>> ELSE parsedURI.val.Path
    IN  path(Parse(u))

URIAccountName(u) ==
    LET cut(path, index) ==
            IF path = <<>> THEN <<>>
            ELSE IF index = 0 THEN path
            ELSE SubSeq(path, index + 1, Len(path))
        name(path) == cut(path, Index(path, <<":">>))
    IN  name(TrimPrefix(URIPath(u), <<"/">>))

URIIssuerFromPath(u) ==
    LET cut(path, index) ==
            IF path = <<>> THEN <<>>
            ELSE IF index = 0 THEN <<>>
            ELSE SubSeq(path, 1, index - 1)
        issuer(path) == cut(path, Index(path, <<":">>))
    IN  issuer(TrimPrefix(URIPath(u), <<"/">>))

\* Issuer as it was before it required both places: either one is enough.
URIIssuer_eitherPlace(u) ==
    LET choose(issuerPath, issuerQuery) ==
            IF issuerQuery # <<>> /\ issuerPath = <<>> THEN issuerQuery
            ELSE IF issuerQuery = <<>> /\ issuerPath # <<>> THEN issuerPath
            ELSE IF issuerQuery = issuerPath THEN issuerQuery
            ELSE <<>>
        issuer(parsedURI) ==
            IF ~parsedURI.ok THEN <<>>
            ELSE choose(URIIssuerFromPath(u), Get(Query(parsedURI.val), queryKey.issuer))
    IN  issuer(Parse(u))

URIIssuer(u) ==
    LET choose(issuerPath, issuerQuery) ==
            IF issuerPath # <<>> /\ issuerQuery # <<>> /\ issuerPath = issuerQuery
            THEN issuerQuery
            ELSE <<>>
        issuer(parsedURI) ==
            IF ~parsedURI.ok THEN <<>>
            ELSE choose(URIIssuerFromPath(u), Get(Query(parsedURI.val), queryKey.issuer))
    IN  issuer(Parse(u))

URIAlgorithm(u) ==
    LET algorithm(parsedURI) ==
            IF ~parsedURI.ok THEN <<>> ELSE Get(Query(parsedURI.val), queryKey.algorithm)
    IN  algorithm(Parse(u))

URIDigits(u) ==
    LET value(digitUint64) == IF digitUint64.ok THEN digitUint64.val ELSE UZero
        digits(parsedURI) ==
            IF ~parsedURI.ok THEN UZero
            ELSE value(ParseUint(Get(Query(parsedURI.val), queryKey.digits), bitSize64))
    IN  digits(Parse(u))

URIPeriod(u) ==
    LET value(periodUint64) == IF periodUint64.ok THEN periodUint64.val ELSE UZero
        period(parsedURI) ==
            IF ~parsedURI.ok THEN UZero
            ELSE value(ParseUint(Get(Query(parsedURI.val), queryKey.period), bitSize64))
    IN  period(Parse(u))

\* Label(): PathUnescape of the path without its slash, "" when that fails.
URILabel(u) ==
    LET text(unescaped) == IF unescaped.ok THEN unescaped.val ELSE <<>>
        label(parsedURI) ==
            IF ~parsedURI.ok THEN <<>>
            ELSE IF TrimPrefix(parsedURI.val.Path, <<"/">>) = <<>> THEN <<>>
            ELSE text(unescape(TrimPrefix(parsedURI.val.Path, <<"/">>), "path"))
    IN  label(Parse(u))

\* encodeQuery that leaves the plus signs of Values.Encode() in place.
encodeQuery_plusForSpace(values, secretFirst) ==
    LET stdEncode(v) == Encode(SortedPairs(v))
        secrets == SelectSeq(values, LAMBDA p : p[1] = queryKey.secret)
        others == SelectSeq(values, LAMBDA p : p[1] # queryKey.secret)
        join(first, rest) ==
            JoinWith(first \o (IF rest # <<>> THEN <<rest>> ELSE <<>>), <<"&">>)
    IN  IF values = <<>> THEN <<>>
        ELSE IF ~secretFirst THEN stdEncode(values)
        ELSE join([i \in DOMAIN secrets |-> stdEncode(<<secrets[i]>>)], stdEncode(others))

\* encodeQuery(values, secretFirst)
encodeQuery(values, secretFirst) ==
    LET plusToPercent20(enc) ==
            Concat([i \in DOMAIN enc |->
                       IF enc[i] = "+" THEN <<"%", "2", "0">> ELSE <<enc[i]>>])
        stdEncode(v) == plusToPercent20(Encode(SortedPairs(v)))
        secrets == SelectSeq(values, LAMBDA p : p[1] = queryKey.secret)
        others == SelectSeq(values, LAMBDA p : p[1] # queryKey.secret)
        join(first, rest) ==
            JoinWith(first \o (IF rest # <<>> THEN <<rest>> ELSE <<>>), <<"&">>)
    IN  IF values = <<>> THEN <<>>
        ELSE IF ~secretFirst THEN stdEncode(values)
        ELSE join([i \in DOMAIN secrets |-> stdEncode(<<secrets[i]>>)], stdEncode(others))

\* Parameters that hands out the text after the question mark unparsed.
URIParameters_rawQuery(u, secretFirst) == Cut(u, <<"?">>)[2]

\* Parameters(secretFirst)
URIParameters(u, secretFirst) ==
    LET parameters(parsedURI) ==
            IF ~parsedURI.ok THEN <<>> ELSE encodeQuery(Query(parsedURI.val), secretFirst)
    IN  parameters(Parse(u))

\* Type(): the host of an otpauth URI.
URIType(u) == IF URIScheme(u) # sOtpauth THEN <<>> ELSE URIHost(u)

\* Secret(): Nil when the parameter does not decode or decodes to nothing.
URISecret(u) ==
    LET value(secret) ==
            IF ~secret.ok THEN Nil
            ELSE IF SecretBase32(secret.val) = <<>> THEN Nil
            ELSE secret.val
        decode(parsedURI) ==
            IF ~parsedURI.ok THEN Nil
            ELSE value(NewSecretBase32(Get(Query(parsedURI.val), queryKey.secret)))
    IN  decode(Parse(u))

minLenBytes == 16

\* Check that accepts a secret of any length.
URICheck_anySecretLength(u) ==
    IF URIScheme(u) # sOtpauth
    THEN <<"invalid scheme. it always should be otpauth">>
    ELSE IF URIHost(u) # sTotp THEN <<"invalid host. it always should be totp">>
    ELSE IF URIIssuer(u) = <<>> THEN <<"missing issuer or issuer is not set correctly">>
    ELSE IF URIAccountName(u) = <<>> THEN <<"missing account name">>
    ELSE IF URISecret(u) = Nil THEN <<"missing secret">>
    ELSE IF URIAlgorithm(u) = <<>> THEN <<"missing algorithm">>
    ELSE IF URIDigits(u) = UZero THEN <<"missing digits or zero digits set">>
    ELSE IF URIPeriod(u) = UZero THEN <<"missing period or zero period set">>
    ELSE IF ~AlgorithmIsSupported(URIAlgorithm(u)) THEN <<"unsupported algorithm">>
    ELSE <<>>

\* Check(): the empty chain for nil, the message of the first failed
\* requirement otherwise (written without its back quotes).
URICheck(u) ==
    IF URIScheme(u) # sOtpauth
    THEN <<"invalid scheme. it always should be otpauth">>
    ELSE IF URIHost(u) # sTotp THEN <<"invalid host. it always should be totp">>
    ELSE IF URIIssuer(u) = <<>> THEN <<"missing issuer or issuer is not set correctly">>
    ELSE IF URIAccountName(u) = <<>> THEN <<"missing account name">>
    ELSE IF URISecret(u) = Nil THEN <<"missing secret">>
    ELSE IF URIAlgorithm(u) = <<>> THEN <<"missing algorithm">>
    ELSE IF URIDigits(u) = UZero THEN <<"missing digits or zero digits set">>
    ELSE IF URIPeriod(u) = UZero THEN <<"missing period or zero period set">>
    ELSE IF ~AlgorithmIsSupported(URIAlgorithm(u)) THEN <<"unsupported algorithm">>
    ELSE IF Len(SecretBytes(URISecret(u))) < minLenBytes
    THEN <<"secret is too short. it should be at least 16 bytes">>
    ELSE <<>>

\* Key.URI()
KeyURI(k) ==
    URLString([Scheme |-> sOtpauth, Host |-> sTotp,
               Path |-> <<"/">> \o k.Options.Issuer \o <<":">> \o k.Options.AccountName,
               RawQuery |-> Encode(<<<<queryKey.algorithm, AlgorithmString(k.Options.Algorithm)>>,
                                     <<queryKey.digits, DigitsString(k.Options.Digits)>>,
                                     <<queryKey.issuer, k.Options.Issuer>>,
                                     <<queryKey.period, FormatUint(k.Options.Period)>>,
                                     <<queryKey.secret, SecretBase32(k.Secret)>>>>)])

\* GenKeyFromURI that leaves the period at the default of GenerateKey.
GenKeyFromURI_defaultPeriod(uri, rnd) ==
    LET overwrite(generated, secret) ==
            IF ~generated.ok
            THEN KeyError(Wrap(generated.err, "failed to generate key"), generated.calls)
            ELSE KeyResult([Secret |-> secret,
                            Options |-> [generated.val.Options EXCEPT
                                        !.SecretSize = U(Len(SecretBytes(secret))),
                                        !.Algorithm = URIAlgorithm(uri),
                                        !.Digits = URIDigits(uri)]],
                           generated.calls)
        create(err) ==
            IF err # <<>>
            THEN KeyError(Wrap(err, "failed to create URI object from the given URI"), <<>>)
            ELSE overwrite(GenerateKey(URIIssuer(uri), URIAccountName(uri), <<>>, rnd),
                           URISecret(uri))
    IN  create(URICheck(uri))

GenKeyFromURI(uri, rnd) ==
    LET overwrite(generated, secret) ==
            IF ~generated.ok
            THEN KeyError(Wrap(generated.err, "failed to generate key"), generated.calls)
            ELSE KeyResult([Secret |-> secret,
                            Options |-> [generated.val.Options EXCEPT
                                        !.SecretSize = U(Len(SecretBytes(secret))),
                                        !.Period = URIPeriod(uri),
                                        !.Algorithm = URIAlgorithm(uri),
                                        !.Digits = URIDigits(uri)]],
                           generated.calls)
        create(err) ==
            IF err # <<>>
            THEN KeyError(Wrap(err, "failed to create URI object from the given URI"), <<>>)
            ELSE overwrite(GenerateKey(URIIssuer(uri), URIAccountName(uri), <<>>, rnd),
                           URISecret(uri))
    IN  create(URICheck(uri))

\* ------------------------------------------------------------------------
\*  encoding/base64 (StdEncoding) and encoding/pem as key.go uses them
\* ------------------------------------------------------------------------

Base64Alphabet == UpperChars \o LowerChars \o DigitChars \o <<"+", "/">>

\* Encoding.decodeMap: the 6-bit value of each character of the alphabet.
Base64DecodeMap == [c \in Range(Base64Alphabet) |-> PosIn(Base64Alphabet, c) - 1]

\* StdEncoding.EncodeToString: four characters for every three bytes, the
\* last group padded with "=".
Base64Encode(bytes) ==
    [j \in 1..(4 * ((Len(bytes) + 2) \div 3)) |->
        LET o == 3 * ((j - 1) \div 4)
            k == (j - 1) % 4
            b0 == At0(bytes, o)
            b1 == At0(bytes, o + 1)
            b2 == At0(bytes, o + 2)
        IN  IF k >= 2 /\ o + k > Len(bytes) THEN "="
            ELSE Base64Alphabet[(CASE k = 0 -> b0 \div 4
                                   [] k = 1 -> (b0 % 4) * 16 + b1 \div 16
                                   [] k = 2 -> (b1 % 16) * 4 + b2 \div 64
                                   [] k = 3 -> b2 % 64) + 1]]

\* StdEncoding.Decode: line breaks are skipped; the rest has to be whole
\* groups of four characters of the alphabet, with "=" only as the last one
\* or two characters.
Base64Decode(str) ==
    LET decode(s, pad) ==
            LET d(i) == IF i + 1 > Len(s) - pad THEN 0 ELSE Base64DecodeMap[s[i + 1]]
            IN  IF Len(s) % 4 # 0
                   \/ \E i \in 1..(Len(s) - pad) : s[i] \notin Range(Base64Alphabet)
                THEN Fail("illegal base64 data")
                ELSE Ok([j \in 1..(3 * (Len(s) \div 4) - pad) |->
                            LET o == 4 * ((j - 1) \div 3)
                                k == (j - 1) % 3
                            IN  CASE k = 0 -> (d(o) * 4 + d(o + 1) \div 16) % 256
                                  [] k = 1 -> (d(o + 1) * 16 + d(o + 2) \div 4) % 256
                                  [] k = 2 -> (d(o + 2) * 64 + d(o + 3)) % 256])
        padded(s) ==
            decode(s, IF s # <<>> /\ s[Len(s)] = "="
                      THEN (IF Len(s) > 1 /\ s[Len(s) - 1] = "=" THEN 2 ELSE 1)
                      ELSE 0)
    IN  padded(SelectSeq(str, LAMBDA c : c # "\n"))

\* NewSecretBase64(base64string)
NewSecretBase64(base64string) ==
    LET secret(decoded) ==
            IF ~decoded.ok
            THEN [ok |-> FALSE, err |-> Wrap(decoded.err, "failed to decode base64 string")]
            ELSE Ok(decoded.val)
    IN  secret(Base64Decode(base64string))

\* Secret.Base64()
SecretBase64(s) == Base64Encode(s)

BlockTypeTOTP == <<"T", "O", "T", "P", " ", "S", "E", "C", "R", "E", "T", " ", "K", "E", "Y">>

pemStart == <<"\n">> \o <<"-", "-", "-", "-", "-", "B", "E", "G", "I", "N", " ">>

pemEnd == <<"\n">> \o <<"-", "-", "-", "-", "-", "E", "N", "D", " ">>

pemEndOfLine == <<"-", "-", "-", "-", "-">>

\* bytes.TrimSpace
TrimSpace(s) ==
    LET keep == {i \in DOMAIN s : s[i] \notin {" ", "\n"}}
    IN  IF keep = {} THEN <<>>
        ELSE SubSeq(s, CHOOSE i \in keep : \A j \in keep : i <= j,
                       CHOOSE i \in keep : \A j \in keep : i >= j)

HasSuffix(s, p) == Len(s) >= Len(p) /\ SubSeq(s, Len(s) - Len(p) + 1, Len(s)) = p

\* pem.EncodeToMemory(block): the BEGIN line, the headers in the order of
\* their names, a blank line, the Base64 body in lines of 64 characters and
\* the END line.  The values of the headers are written as they are.
pemEncodeToMemory(block) ==
    LET text(body) ==
            Tail(pemStart) \o block.Type \o pemEndOfLine \o <<"\n">>
            \o Concat([i \in DOMAIN block.Headers |->
                          block.Headers[i][1] \o <<":", " ">> \o block.Headers[i][2]
                              \o <<"\n">>])
            \o (IF block.Headers = <<>> THEN <<>> ELSE <<"\n">>)
            \o Concat([l \in 1..((Len(body) + 63) \div 64) |->
                          SubSeq(body, 64 * (l - 1) + 1,
                                 IF 64 * l < Len(body) THEN 64 * l ELSE Len(body)) \o <<"\n">>])
            \o Tail(pemEnd) \o block.Type \o pemEndOfLine \o <<"\n">>
    IN  text(Base64Encode(block.Bytes))

\* getLine(data): <<the first line without its trailing blanks, the rest>>.
getLine(data) ==
    LET trimmed(line, keep) ==
            IF keep = {} THEN <<>>
            ELSE SubSeq(line, 1, CHOOSE j \in keep : \A h \in keep : j >= h)
        trimRight(line) == trimmed(line, {j \in DOMAIN line : line[j] # " "})
        cut(i) ==
            <<trimRight(IF i = 0 THEN data ELSE SubSeq(data, 1, i - 1)),
              IF i = 0 THEN <<>> ELSE SubSeq(data, i + 1, Len(data))>>
    IN  cut(Index(data, <<"\n">>))

RECURSIVE pemHeaders(_, _)
\* The header loop of pem.Decode: the name: value lines up to the first line
\* without a colon; Nil when the data ends first.
pemHeaders(rest, headers) ==
    LET header(next, kv) ==
            IF ~kv[3] THEN [headers |-> headers, rest |-> rest]
            ELSE pemHeaders(next, headers \o <<<<TrimSpace(kv[1]), TrimSpace(kv[2])>>>>)
        line(l) == header(l[2], Cut(l[1], <<":">>))
    IN  IF rest = <<>> THEN Nil ELSE line(getLine(rest))

RECURSIVE pemDecodeFrom(_, _)
\* pem.Decode(data) with its search at rest: the first well-formed block and
\* what follows it, or no block and the data.
pemDecodeFrom(data, rest0) ==
    LET noBlock == [block |-> Nil, rest |-> data]
        block(typeLine, headers, rest, endIndex, endTrailer, bytes) ==
            LET endTrailerLen == Len(typeLine) + Len(pemEndOfLine)
                trailer == SubSeq(endTrailer, 1, endTrailerLen)
                restOfEndLine == SubSeq(endTrailer, endTrailerLen + 1, Len(endTrailer))
            IN  IF \/ endIndex < 0
                   \/ Len(endTrailer) < endTrailerLen
                   \/ ~HasPrefix(trailer, typeLine)
                   \/ ~HasSuffix(trailer, pemEndOfLine)
                   \/ getLine(restOfEndLine)[1] # <<>>
                   \/ ~bytes.ok
                THEN pemDecodeFrom(data, rest)
                ELSE [block |-> [Type |-> typeLine, Headers |-> headers, Bytes |-> bytes.val],
                      rest |-> getLine(SubSeq(rest, endIndex + Len(pemEnd), Len(rest)))[2]]
        body(typeLine, headers, rest, noHeaders, endIndex) ==
            block(typeLine, headers, rest, endIndex,
                  SubSeq(rest, (IF noHeaders THEN Len(pemEnd) - 1 ELSE endIndex + Len(pemEnd)) + 1,
                         Len(rest)),
                  Base64Decode(SelectSeq(SubSeq(rest, 1, endIndex), LAMBDA c : c # " ")))
        end(typeLine, headers, rest, noHeaders) ==
            body(typeLine, headers, rest, noHeaders,
                 IF noHeaders THEN 0 ELSE Index(rest, pemEnd) - 1)
        headed(typeLine, h) ==
            IF h = Nil THEN noBlock
            ELSE end(typeLine, h.headers, h.rest,
                     h.headers = <<>> /\ HasPrefix(h.rest, Tail(pemEnd)))
        begin(tl) ==
            IF ~HasSuffix(tl[1], pemEndOfLine) THEN pemDecodeFrom(data, tl[2])
            ELSE headed(SubSeq(tl[1], 1, Len(tl[1]) - Len(pemEndOfLine)),
                        pemHeaders(tl[2], <<>>))
        search(cut, atStart) ==
            IF ~atStart /\ ~cut[3] THEN noBlock
            ELSE begin(getLine(IF atStart THEN SubSeq(rest0, Len(pemStart), Len(rest0))
                               ELSE cut[2]))
    IN  search(Cut(rest0, pemStart), HasPrefix(rest0, Tail(pemStart)))

\* block.Headers[name]: the value set last, "" without one.
Header(block, name) ==
    LET hits == SelectSeq(block.Headers, LAMBDA p : p[1] = name)
    IN  IF hits = <<>> THEN <<>> ELSE hits[Len(hits)][2]

\* The names of the PEM headers of a key.
pemHeader ==
    [AccountName |-> <<"A", "c", "c", "o", "u", "n", "t", " ", "N", "a", "m", "e">>,
     Algorithm |-> <<"A", "l", "g", "o", "r", "i", "t", "h", "m">>,
     Digits |-> <<"D", "i", "g", "i", "t", "s">>,
     Issuer |-> <<"I", "s", "s", "u", "e", "r">>,
     Period |-> <<"P", "e", "r", "i", "o", "d">>,
     SecretSize |-> <<"S", "e", "c", "r", "e", "t", " ", "S", "i", "z", "e">>,
     Skew |-> <<"S", "k", "e", "w">>]

\* Key.PEM() that leaves out the Skew header.
KeyPEM_withoutSkew(k) ==
    Ok(pemEncodeToMemory(
        [Type |-> BlockTypeTOTP,
         Headers |-> <<<<pemHeader.AccountName, k.Options.AccountName>>,
                       <<pemHeader.Algorithm, AlgorithmString(k.Options.Algorithm)>>,
                       <<pemHeader.Digits, DigitsString(k.Options.Digits)>>,
                       <<pemHeader.Issuer, k.Options.Issuer>>,
                       <<pemHeader.Period, FormatUint(k.Options.Period)>>,
                       <<pemHeader.SecretSize, FormatUint(k.Options.SecretSize)>>>>,
         Bytes |-> SecretBytes(k.Secret)]))

\* Key.PEM(): pem.EncodeToMemory refuses only a header name with a colon,
\* so with these seven names it always returns the text.
KeyPEM(k) ==
    Ok(pemEncodeToMemory(
        [Type |-> BlockTypeTOTP,
         Headers |-> <<<<pemHeader.AccountName, k.Options.AccountName>>,
                       <<pemHeader.Algorithm, AlgorithmString(k.Options.Algorithm)>>,
                       <<pemHeader.Digits, DigitsString(k.Options.Digits)>>,
                       <<pemHeader.Issuer, k.Options.Issuer>>,
                       <<pemHeader.Period, FormatUint(k.Options.Period)>>,
                       <<pemHeader.SecretSize, FormatUint(k.Options.SecretSize)>>,
                       <<pemHeader.Skew, FormatUint(k.Options.Skew)>>>>,
         Bytes |-> SecretBytes(k.Secret)]))

\* GenKeyFromPEM that looks at the first block only.
GenKeyFromPEM_firstBlockOnly(pemKey) ==
    LET load(block) ==
            IF block # Nil /\ block.Type = BlockTypeTOTP
            THEN KeyResult(
                     [Secret |-> block.Bytes,
                      Options |-> [AccountName |-> Header(block, pemHeader.AccountName),
                                   Algorithm |-> Header(block, pemHeader.Algorithm),
                                   Digits |-> NewDigitsStr(Header(block, pemHeader.Digits)),
                                   ecdhCtx |-> <<>>,
                                   ecdhPrivateKey |-> Nil,
                                   ecdhPublicKey |-> Nil,
                                   Issuer |-> Header(block, pemHeader.Issuer),
                                   kdf |-> Nil,
                                   Period |-> StrToUint(Header(block, pemHeader.Period)),
                                   prependSecretInURI |-> FALSE,
                                   SecretSize |-> StrToUint(Header(block, pemHeader.SecretSize)),
                                   Skew |-> StrToUint(Header(block, pemHeader.Skew))]],
                     <<>>)
            ELSE KeyError(<<"failed to decode PEM block containing TOTP secret key">>, <<>>)
        decoded(d) == load(d.block)
    IN  decoded(pemDecodeFrom(pemKey, pemKey))

\* One call of GenKeyFromPEM that calls itself with the text it was given.
GenKeyFromPEMCall_sameText(pemKey) ==
    LET does(d) ==
            IF d.block # Nil /\ d.block.Type = BlockTypeTOTP
            THEN [does |-> "return key", skipped |-> <<>>, next |-> <<>>]
            ELSE IF d.block # Nil /\ Len(d.rest) > 0
            THEN [does |-> "call", skipped |-> d.block.Type, next |-> pemKey]
            ELSE [does |-> "return error", skipped |-> <<>>, next |-> <<>>]
    IN  does(pemDecodeFrom(pemKey, pemKey))

\* One call of GenKeyFromPEM up to where it returns or calls itself: what it
\* does, and for a call of itself the type of the block it skipped and the
\* text it hands on.
GenKeyFromPEMCall(pemKey) ==
    LET does(d) ==
            IF d.block # Nil /\ d.block.Type = BlockTypeTOTP
            THEN [does |-> "return key", skipped |-> <<>>, next |-> <<>>]
            ELSE IF d.block # Nil /\ Len(d.rest) > 0
            THEN [does |-> "call", skipped |-> d.block.Type, next |-> d.rest]
            ELSE [does |-> "return error", skipped |-> <<>>, next |-> <<>>]
    IN  does(pemDecodeFrom(pemKey, pemKey))

RECURSIVE GenKeyFromPEM(_)
\* GenKeyFromPEM(pemKey)
GenKeyFromPEM(pemKey) ==
    LET load(block, rest) ==
            IF block # Nil /\ block.Type = BlockTypeTOTP
            THEN KeyResult(
                     [Secret |-> block.Bytes,
                      Options |-> [AccountName |-> Header(block, pemHeader.AccountName),
                                   Algorithm |-> Header(block, pemHeader.Algorithm),
                                   Digits |-> NewDigitsStr(Header(block, pemHeader.Digits)),
                                   ecdhCtx |-> <<>>,
                                   ecdhPrivateKey |-> Nil,
                                   ecdhPublicKey |-> Nil,
                                   Issuer |-> Header(block, pemHeader.Issuer),
                                   kdf |-> Nil,
                                   Period |-> StrToUint(Header(block, pemHeader.Period)),
                                   prependSecretInURI |-> FALSE,
                                   SecretSize |-> StrToUint(Header(block, pemHeader.SecretSize)),
                                   Skew |-> StrToUint(Header(block, pemHeader.Skew))]],
                     <<>>)
            ELSE IF block # Nil /\ Len(rest) > 0 THEN GenKeyFromPEM(rest)
            ELSE KeyError(<<"failed to decode PEM block containing TOTP secret key">>, <<>>)
        decoded(d) == load(d.block, d.rest)
    IN  decoded(pemDecodeFrom(pemKey, pemKey))

\* ------------------------------------------------------------------------
\*  State: a caller holding a Key, the system clock and the last call made
\* ------------------------------------------------------------------------

VARIABLES
    key,    \* the caller's *Key, Nil before a constructor succeeded
    peer,   \* the *Key of the other party of an ECDH key agreement, or Nil
    now,    \* the system clock (time.Now), seconds since the Unix epoch
    last    \* the last call: its name, its arguments and what it returned

vars == <<key, peer, now, last>>

Times == 0..MaxTime

aIssuer == <<"a">>

aAccount == <<"b">>

\* A small secret keeps passcode computation cheap: 16 bytes.
SmallSecret == WithSecretSize(U(16))

\* The option lists the callers of the passcode API generate their key with:
\* the defaults, and every combination of a period and a skew.
TotpOptions ==
    {<<SmallSecret>>, <<SmallSecret, WithDigits(DigitsEight), WithAlgorithm(cSHA512)>>}
    \cup {<<SmallSecret, WithPeriod(U(p)), WithSkew(U(s))>> : p \in {3, 7}, s \in {0, 1, 2}}

Init ==
    /\ key = Nil
    /\ peer = Nil
    /\ now = 0
    /\ last = [op |-> "none"]

\* key, err := GenerateKey(issuer, accountName, opts...)
DoGenerateKey(issuer, accountName, opts, rnd) ==
    LET returned(r) ==
            /\ key = Nil
            /\ key' = IF r.ok THEN r.val ELSE Nil
            /\ last' = [op |-> "GenerateKey", issuer |-> issuer, accountName |-> accountName,
                        opts |-> opts, ok |-> r.ok,
                        err |-> IF r.ok THEN <<>> ELSE r.err, calls |-> r.calls]
            /\ UNCHANGED <<peer, now>>
    IN  returned(GenerateKey(issuer, accountName, opts, rnd))

\* passcode, err := key.PassCodeCustom(genTime)
DoPassCodeCustom(genTime) ==
    /\ key # Nil
    /\ last.op \in {"GenerateKey", "NewKey", "PassCodeCustom"}
    /\ last' = [op |-> "PassCodeCustom", genTime |-> genTime,
                res |-> KeyPassCodeCustom(key, genTime)]
    /\ UNCHANGED <<key, peer, now>>

\* ok := key.ValidateCustom(passcode, validationTime), on the passcode the
\* last PassCodeCustom or PassCode returned.
DoValidateCustom(validationTime) ==
    LET returned(r) ==
            /\ last' = IF r.ok
                       THEN [op |-> "ValidateCustom", passcode |-> last.res.val,
                             genTime |-> last.genTime, validationTime |-> validationTime,
                             valid |-> r.val]
                       ELSE [op |-> "ValidateCustom", passcode |-> last.res.val,
                             genTime |-> last.genTime, validationTime |-> validationTime,
                             panic |-> r.err]
            /\ UNCHANGED <<key, peer, now>>
    IN  /\ key # Nil
        /\ last.op \in {"PassCodeCustom", "PassCode"}
        /\ last.res.ok
        /\ returned(KeyValidateCustom(key, last.res.val, validationTime))

Next ==
    \/ \E opts \in TotpOptions, rnd \in {1} : DoGenerateKey(aIssuer, aAccount, opts, rnd)
    \/ \E t \in Times : DoPassCodeCustom(t)
    \/ \E t \in Times : DoValidateCustom(t)

Spec == Init /\ [][Next]_vars

\* ------------------------------------------------------------------------
\*  A caller of the wall-clock API: PassCode, wait, Validate
\* ------------------------------------------------------------------------

\* The option lists of the callers of the wall-clock API.
ClockOptions ==
    {<<SmallSecret>>, <<SmallSecret, WithPeriod(U(3))>>,
     <<SmallSecret, WithPeriod(U(3)), WithSkew(U(0))>>,
     <<SmallSecret, WithPeriod(U(7)), WithSkew(U(2))>>}

\* One second passes.
Tick ==
    /\ now < MaxTime
    /\ now' = now + 1
    /\ UNCHANGED <<key, peer, last>>

\* passcode, err := key.PassCode()
DoPassCode ==
    /\ key # Nil
    /\ last' = [op |-> "PassCode", genTime |-> now, res |-> KeyPassCode(key, now)]
    /\ UNCHANGED <<key, peer, now>>

\* ok := key.Validate(passcode), on the passcode the last PassCode returned.
DoValidate ==
    LET returned(r) ==
            /\ last' = IF r.ok
                       THEN [op |-> "Validate", passcode |-> last.res.val,
                             genTime |-> last.genTime, validationTime |-> now,
                             valid |-> r.val]
                       ELSE [op |-> "Validate", passcode |-> last.res.val,
                             genTime |-> last.genTime, validationTime |-> now,
                             panic |-> r.err]
            /\ UNCHANGED <<key, peer, now>>
    IN  /\ key # Nil
        /\ last.op = "PassCode"
        /\ last.res.ok
        /\ returned(KeyValidate(key, last.res.val, now))

NextClock ==
    \/ \E opts \in ClockOptions, rnd \in {1} : DoGenerateKey(aIssuer, aAccount, opts, rnd)
    \/ Tick
    \/ DoPassCode
    \/ DoValidate

SpecClock == Init /\ [][NextClock]_vars

\* ------------------------------------------------------------------------
\*  Two parties deriving their keys from an ECDH key agreement
\* ------------------------------------------------------------------------

\* The ECDH private keys of the parties, on two curves.
PrivateKeys ==
    {ecdhPrivateKey("P256", 1), ecdhPrivateKey("P256", 2), ecdhPrivateKey("X25519", 3)}

PublicKeys == {ecdhPublicKey(priv) : priv \in PrivateKeys}

\* The seeds of the random source.
RandSeeds == {1, 2}

EcdhOptions ==
    {<<WithECDH(priv, pub, ctx), WithSecretSize(size)>> :
        priv \in PrivateKeys, pub \in PublicKeys, ctx \in {<<"c", "1">>, <<"c", "2">>},
        size \in {UZero, U(16), UMaxUint64}}

\* The other party calls GenerateKey(issuer, accountName, opts...) once the
\* caller holds its key.
DoPeerGenerateKey(issuer, accountName, opts, rnd) ==
    LET returned(r) ==
            /\ key # Nil
            /\ peer = Nil
            /\ peer' = IF r.ok THEN r.val ELSE Nil
            /\ last' = [op |-> "PeerGenerateKey", opts |-> opts, ok |-> r.ok,
                        err |-> IF r.ok THEN <<>> ELSE r.err, calls |-> r.calls]
            /\ UNCHANGED <<key, now>>
    IN  returned(GenerateKey(issuer, accountName, opts, rnd))

\* key, err := GenerateKeyCustom(options)
DoGenerateKeyCustom(options, rnd) ==
    LET returned(r) ==
            /\ key = Nil
            /\ key' = IF r.ok THEN r.val ELSE Nil
            /\ last' = [op |-> "GenerateKeyCustom", options |-> options, ok |-> r.ok,
                        err |-> IF r.ok THEN <<>> ELSE r.err, calls |-> r.calls]
            /\ UNCHANGED <<peer, now>>
    IN  returned(GenerateKeyCustom(options, rnd))

\* Options a caller of GenerateKeyCustom fills in by hand: ECDH keys, with
\* and without the issuer and the account name.
EcdhCustomOptions ==
    {[SetDefault(ZeroOptions) EXCEPT !.Issuer = issuer, !.AccountName = aAccount,
                                     !.ecdhPrivateKey = priv, !.ecdhPublicKey = pub,
                                     !.ecdhCtx = <<"c", "1">>, !.SecretSize = U(16)] :
        issuer \in {aIssuer, <<>>}, priv \in PrivateKeys, pub \in PublicKeys}

\* The option lists of a caller with a KDF of its own, with a context that
\* KDF refuses and with one it accepts.
EcdhKdfOptions ==
    {<<WithECDH(ecdhPrivateKey("P256", 1), ecdhPublicKey(ecdhPrivateKey("P256", 2)), ctx),
       WithECDHKDF("commonKDF"), WithSecretSize(U(16))>> :
        ctx \in {<<"c", "1">>, <<"c", "o", "n", "t", "e", "x", "t", "1">>}}

NextECDH ==
    \/ \E opts \in EcdhKdfOptions : DoGenerateKey(aIssuer, aAccount, opts, 1)
    \/ \E opts \in EcdhOptions, rnd \in RandSeeds :
            DoGenerateKey(aIssuer, aAccount, opts, rnd)
    \/ \E opts \in EcdhOptions : DoGenerateKey(<<>>, aAccount, opts, 1)
    \/ \E opts \in EcdhOptions, rnd \in RandSeeds :
            DoPeerGenerateKey(aAccount, aIssuer, opts, rnd)
    \/ \E options \in EcdhCustomOptions, rnd \in RandSeeds :
            DoGenerateKeyCustom(options, rnd)

SpecECDH == Init /\ [][NextECDH]_vars

\* ------------------------------------------------------------------------
\*  A caller inspecting otpauth URIs it was handed
\* ------------------------------------------------------------------------

sSHA1Lower == <<"s", "h", "a", "1">>

\* An absent query parameter.
Absent == <<"-", "absent", "-">>

\* Base32 of 16 bytes and of 8 bytes.
LongSecret == Base32Encode([i \in 1..16 |-> (7 * i) % 256])

ShortSecret == Base32Encode([i \in 1..8 |-> (7 * i) % 256])

\* The URI as its author writes it down: scheme://host/label?name=value&...
\* with the parameters that are present, in the order of the golden URIs.
HandURI(parts) ==
    LET params == <<<<queryKey.algorithm, parts.algorithm>>, <<queryKey.digits, parts.digits>>,
                    <<queryKey.issuer, parts.issuer>>, <<queryKey.period, parts.period>>,
                    <<queryKey.secret, parts.secret>>>>
        present == SelectSeq(params, LAMBDA p : p[2] # Absent)
        query == JoinWith([i \in DOMAIN present |-> present[i][1] \o <<"=">> \o present[i][2]],
                          <<"&">>)
    IN  parts.scheme \o <<":", "/", "/">> \o parts.host \o <<"/">> \o parts.label
            \o (IF present = <<>> THEN <<>> ELSE <<"?">> \o query)

\* The parts of the URIs: good and bad schemes, hosts, labels and parameters.
URIParts ==
    [scheme : {sOtpauth, <<"i", "p", "f", "s">>},
     host : {sTotp, <<"h", "o", "t", "p">>},
     label : {<<"a", ":", "b">>, <<"b">>, <<"a", ":">>, <<":", "b">>},
     issuer : {Absent, <<"a">>, <<"c">>},
     secret : {Absent, LongSecret, ShortSecret},
     algorithm : {Absent, cSHA1, sSHA1Lower},
     digits : {<<"0">>, <<"6">>},
     period : {<<"0">>, <<"3", "0">>}]

\* The caller holds no key, only the URI it was handed.
InitURI ==
    /\ key = Nil
    /\ peer = Nil
    /\ now = 0
    /\ last \in {[op |-> "input", parts |-> parts, uri |-> HandURI(parts)] : parts \in URIParts}

\* err := URI(uri).Check()
DoCheck ==
    /\ last.op = "input"
    /\ last' = [op |-> "Check", parts |-> last.parts, uri |-> last.uri,
                err |-> URICheck(last.uri)]
    /\ UNCHANGED <<key, peer, now>>

\* issuer := URI(uri).Issuer()
DoIssuer ==
    /\ last.op = "input"
    /\ last' = [op |-> "Issuer", parts |-> last.parts, uri |-> last.uri,
                res |-> URIIssuer(last.uri)]
    /\ UNCHANGED <<key, peer, now>>

\* peer, err := GenKeyFromURI(uri), on the URI handed in or on the one the
\* caller's own key rendered.
DoGenKeyFromURI(rnd) ==
    LET returned(r) ==
            /\ peer' = IF r.ok THEN r.val ELSE Nil
            /\ last' = [op |-> "GenKeyFromURI", from |-> last.op, uri |-> last.uri,
                        ok |-> r.ok, err |-> IF r.ok THEN <<>> ELSE r.err,
                        calls |-> r.calls]
            /\ UNCHANGED <<key, now>>
    IN  /\ last.op \in {"input", "URI"}
        /\ returned(GenKeyFromURI(last.uri, rnd))

NextURI ==
    \/ DoCheck
    \/ DoIssuer
    \/ \E rnd \in {1} : DoGenKeyFromURI(rnd)

SpecURI == InitURI /\ [][NextURI]_vars

\* ------------------------------------------------------------------------
\*  A caller reading the fields of URIs, well-formed and malformed
\* ------------------------------------------------------------------------

\* Decimal texts below 2^32 (among them the ends of 1..20 and of 1..86400
\* and their neighbours), texts of 2^32 and more (the last one above
\* MaxUint64), and texts that are no decimal number.
SmallNumbers ==
    {<<"0">>, <<"1">>, <<"6">>, <<"2", "0">>, <<"2", "1">>, <<"3", "0">>,
     <<"8", "6", "4", "0", "0">>, <<"8", "6", "4", "0", "1">>,
     <<"4", "2", "9", "4", "9", "6", "7", "2", "9", "5">>}

BigNumbers ==
    {<<"4", "2", "9", "4", "9", "6", "7", "2", "9", "6">>,
     <<"4", "2", "9", "4", "9", "6", "7", "2", "9", "7">>,
     <<"1", "8", "4", "4", "6", "7", "4", "4", "0", "7", "3", "7", "0", "9", "5", "5", "1",
       "6", "1", "5">>,
     <<"1", "8", "4", "4", "6", "7", "4", "4", "0", "7", "3", "7", "0", "9", "5", "5", "1",
       "6", "1", "6">>}

BadNumbers == {<<>>, <<"x">>, <<"-", "1">>}

\* URIs that differ in their digits and period parameters only.
NumberParts ==
    [scheme : {sOtpauth}, host : {sTotp}, label : {<<"a", ":", "b">>}, issuer : {<<"a">>},
     secret : {LongSecret}, algorithm : {cSHA1},
     digits : SmallNumbers \cup BigNumbers \cup BadNumbers,
     period : SmallNumbers \cup BigNumbers \cup BadNumbers]

\* URIs url.Parse refuses: the one of TestURI_malformed_uri, which ends in
\* the byte 0x7f, one without a scheme before its colon, one with a
\* malformed escape in its label, one with a space in its host and one
\* with a line feed in its label.
MalformedURIs ==
    {<<"t", "h", "i", "s", " ", "i", "s", " ", "a", " ", "b", "a", "d", " ", "U", "R", "I",
       "\\x7f">>,
     <<":", "a">>,
     HandURI([scheme |-> sOtpauth, host |-> sTotp, label |-> <<"a", "%", "z", "z", ":", "b">>,
              issuer |-> <<"a">>, secret |-> LongSecret, algorithm |-> cSHA1,
              digits |-> <<"6">>, period |-> <<"3", "0">>]),
     HandURI([scheme |-> sOtpauth, host |-> <<"t", "o", " ", "t", "p">>,
              label |-> <<"a", ":", "b">>,
              issuer |-> <<"a">>, secret |-> LongSecret, algorithm |-> cSHA1,
              digits |-> <<"6">>, period |-> <<"3", "0">>]),
     HandURI([scheme |-> sOtpauth, host |-> sTotp, label |-> <<"a", ":", "b", "\n">>,
              issuer |-> <<"a">>, secret |-> LongSecret, algorithm |-> cSHA1,
              digits |-> <<"6">>, period |-> <<"3", "0">>])}

InitAccessors ==
    /\ key = Nil
    /\ peer = Nil
    /\ now = 0
    /\ last \in {[op |-> "input", parts |-> parts, uri |-> HandURI(parts)] :
                    parts \in NumberParts}
                \cup {[op |-> "input", parts |-> Nil, uri |-> uri] : uri \in MalformedURIs}

\* The caller reads one field: res := URI(uri).<method>()
Read(method, res) ==
    /\ last.op = "input"
    /\ last' = [op |-> method, parts |-> last.parts, uri |-> last.uri, res |-> res]
    /\ UNCHANGED <<key, peer, now>>

DoScheme == Read("Scheme", URIScheme(last.uri))

DoHost == Read("Host", URIHost(last.uri))

DoType == Read("Type", URIType(last.uri))

DoIssuerFromPath == Read("IssuerFromPath", URIIssuerFromPath(last.uri))

DoAccountName == Read("AccountName", URIAccountName(last.uri))

DoAlgorithm == Read("Algorithm", URIAlgorithm(last.uri))

DoLabel == Read("Label", URILabel(last.uri))

DoParameters(secretFirst) == Read("Parameters", URIParameters(last.uri, secretFirst))

DoSecret == Read("Secret", URISecret(last.uri))

\* digits := URI(uri).Digits()
DoDigits ==
    /\ last.op = "input"
    /\ last' = [op |-> "Digits", parts |-> last.parts, uri |-> last.uri,
                res |-> URIDigits(last.uri)]
    /\ UNCHANGED <<key, peer, now>>

\* period := URI(uri).Period()
DoPeriod ==
    /\ last.op = "input"
    /\ last' = [op |-> "Period", parts |-> last.parts, uri |-> last.uri,
                res |-> URIPeriod(last.uri)]
    /\ UNCHANGED <<key, peer, now>>

NextAccessors ==
    \/ DoDigits
    \/ DoPeriod
    \/ DoScheme
    \/ DoHost
    \/ DoType
    \/ DoIssuer
    \/ DoIssuerFromPath
    \/ DoAccountName
    \/ DoAlgorithm
    \/ DoLabel
    \/ \E secretFirst \in BOOLEAN : DoParameters(secretFirst)
    \/ DoSecret
    \/ DoCheck

SpecAccessors == InitAccessors /\ [][NextAccessors]_vars

\* ------------------------------------------------------------------------
\*  A caller reading the parameters of a URI in both orders
\* ------------------------------------------------------------------------

\* The most key=value pieces in the query of a URI.
MaxParams == 3

\* Pieces of a query as written in the URI (raw) and as the pair they stand
\* for is written by Values.Encode() with %20 for a space (out; none for the
\* piece url.ParseQuery skips): secrets, a space written as %20 and as a
\* plus sign, a plus sign written as %2B, a key in upper case, a piece with
\* a semicolon and a key without a value.
QueryPieces ==
    {[raw |-> <<"s", "e", "c", "r", "e", "t", "=", "A", "B">>,
      out |-> <<"s", "e", "c", "r", "e", "t", "=", "A", "B">>],
     [raw |-> <<"s", "e", "c", "r", "e", "t", "=", "C", "D">>,
      out |-> <<"s", "e", "c", "r", "e", "t", "=", "C", "D">>],
     [raw |-> <<"i", "s", "s", "u", "e", "r", "=", "a", "%", "2", "0", "b">>,
      out |-> <<"i", "s", "s", "u", "e", "r", "=", "a", "%", "2", "0", "b">>],
     [raw |-> <<"t", "=", "a", "+", "b">>,
      out |-> <<"t", "=", "a", "%", "2", "0", "b">>],
     [raw |-> <<"b", "=", "%", "2", "B">>,
      out |-> <<"b", "=", "%", "2", "B">>],
     [raw |-> <<"Z", "=", "1">>,
      out |-> <<"Z", "=", "1">>],
     [raw |-> <<"x", ";", "y", "=", "1">>,
      out |-> <<>>],
     [raw |-> <<"d", "i", "g", "i", "t", "s">>,
      out |-> <<"d", "i", "g", "i", "t", "s", "=">>]}

\* otpauth://totp/a:b with the pieces as its query; no question mark
\* without pieces.
ParameterURI(pieces) ==
    sOtpauth \o <<":", "/", "/">> \o sTotp \o <<"/", "a", ":", "b">>
        \o (IF pieces = <<>> THEN <<>>
            ELSE <<"?">> \o JoinWith([i \in DOMAIN pieces |-> pieces[i].raw], <<"&">>))

InitParameters ==
    /\ key = Nil
    /\ peer = Nil
    /\ now = 0
    /\ last \in {[op |-> "input", pieces |-> pieces, uri |-> ParameterURI(pieces)] :
                    pieces \in UNION {[1..n -> QueryPieces] : n \in 0..MaxParams}}
                \cup {[op |-> "input", pieces |-> <<>>, uri |-> uri] : uri \in MalformedURIs}

\* params := URI(uri).Parameters(secretFirst)
DoParametersOnce(secretFirst) ==
    /\ last.op = "input"
    /\ last' = [op |-> "Parameters", pieces |-> last.pieces, uri |-> last.uri,
                secretFirst |-> secretFirst, res |-> URIParameters(last.uri, secretFirst)]
    /\ UNCHANGED <<key, peer, now>>

\* The caller reads the parameters of the same URI in the other order.
DoParametersAgain ==
    LET both(other) ==
            [op |-> "ParametersAgain", pieces |-> last.pieces, uri |-> last.uri,
             secretFirst |-> IF last.secretFirst THEN last.res ELSE other,
             alphabetical |-> IF last.secretFirst THEN other ELSE last.res]
    IN  /\ last.op = "Parameters"
        /\ last' = both(URIParameters(last.uri, ~last.secretFirst))
        /\ UNCHANGED <<key, peer, now>>

NextParameters ==
    \/ \E secretFirst \in BOOLEAN : DoParametersOnce(secretFirst)
    \/ DoParametersAgain

SpecParameters == InitParameters /\ [][NextParameters]_vars

\* ------------------------------------------------------------------------
\*  A caller converting between names, Algorithms and ids
\* ------------------------------------------------------------------------

\* The forms of a letter: itself, its lower case, and for S the long s.
LetterForms(c) ==
    IF c \notin UpperSet THEN {c}
    ELSE {c, LowerChars[PosIn(UpperChars, c)]} \cup (IF c = "S" THEN {LongS} ELSE {})

\* The name in every letter case.
CaseForms(name) == {text \in [DOMAIN name -> UNION {LetterForms(name[i]) : i \in DOMAIN name}] :
                       \A i \in DOMAIN name : text[i] \in LetterForms(name[i])}

SupportedNames == {cMD5, cSHA1, cSHA256, cSHA512}

\* Names that are none of the four in any letter case.
OtherNames ==
    {<<>>, <<"S", "H", "A">>, <<"S", "H", "A", "2">>, <<"S", "H", "A", "-", "1">>,
     <<"S", "H", "A", "1", " ">>, <<" ", "m", "d", "5">>, <<"s", "h", "a", "2", "2", "4">>,
     <<"S", "H", "A", "3">>, <<"m", "d", "4">>, <<"1", "A", "H", "S">>,
     <<"S", "H", "A", "1", "S", "H", "A", "1">>, <<"0">>, <<"x">>}

\* Ids from below the sentinel to above the largest id.
AlgorithmIDs == (UnsupportedAlgo - 1)..(otpAlgorithmMD5 + 2)

InitAlgorithm ==
    /\ key = Nil
    /\ peer = Nil
    /\ now = 0
    /\ last \in {[op |-> "name", name |-> name] :
                    name \in OtherNames \cup UNION {CaseForms(n) : n \in SupportedNames}}
                \cup {[op |-> "id", id |-> id] : id \in AlgorithmIDs}

\* algo, err := NewAlgorithmStr(name)
DoNewAlgorithmStr ==
    LET returned(r) ==
            [op |-> "NewAlgorithmStr", name |-> last.name, ok |-> r.ok,
             algo |-> IF r.ok THEN r.val ELSE <<>>]
    IN  /\ last.op = "name"
        /\ last' = returned(NewAlgorithmStr(last.name))
        /\ UNCHANGED <<key, peer, now>>

\* algo := Algorithm(name)
DoConvertAlgorithm ==
    /\ last.op = "name"
    /\ last' = [op |-> "Algorithm", name |-> last.name, ok |-> TRUE, algo |-> last.name]
    /\ UNCHANGED <<key, peer, now>>

\* The caller calls a method of the Algorithm it holds.
Method(method, res) ==
    /\ last.op \in {"NewAlgorithmStr", "Algorithm"}
    /\ last.ok
    /\ last' = [op |-> method, name |-> last.name, from |-> last.op, algo |-> last.algo,
                res |-> res]
    /\ UNCHANGED <<key, peer, now>>

DoIsSupported == Method("IsSupported", AlgorithmIsSupported(last.algo))

DoID == Method("ID", AlgorithmID(last.algo))

DoOTPAlgorithm == Method("OTPAlgorithm", OTPAlgorithm(last.algo))

DoString == Method("String", AlgorithmString(last.algo))

\* again, err := NewAlgorithmID(id), with an id of the caller's or with the
\* one ID() returned.
DoNewAlgorithmID ==
    \/ /\ last.op = "id"
       /\ last' = [op |-> "NewAlgorithmID", from |-> "id", algo |-> <<>>, id |-> last.id,
                   res |-> NewAlgorithmID(last.id)]
       /\ UNCHANGED <<key, peer, now>>
    \/ /\ last.op = "ID"
       /\ last' = [op |-> "NewAlgorithmID", from |-> last.from, algo |-> last.algo,
                   id |-> last.res, res |-> NewAlgorithmID(last.res)]
       /\ UNCHANGED <<key, peer, now>>

NextAlgorithm ==
    \/ DoNewAlgorithmStr
    \/ DoConvertAlgorithm
    \/ DoIsSupported
    \/ DoID
    \/ DoOTPAlgorithm
    \/ DoString
    \/ DoNewAlgorithmID

SpecAlgorithm == InitAlgorithm /\ [][NextAlgorithm]_vars

\* ------------------------------------------------------------------------
\*  A caller making Digits from integers and from texts
\* ------------------------------------------------------------------------

\* The largest of the small integers.
MaxDigitsInt == 25

\* math.MaxInt64 and the magnitude of math.MinInt64
UMaxInt64 == <<LimbBase \div 2 - 1, LimbBase - 1, LimbBase - 1, LimbBase - 1>>

UMinInt64 == <<LimbBase \div 2, 0, 0, 0>>

\* Go ints: the small ones of both signs, and around 2^32 and at the ends
\* of the type.
DigitsInts ==
    {[neg |-> neg, mag |-> U(n)] : neg \in BOOLEAN, n \in 1..MaxDigitsInt}
    \cup {[neg |-> FALSE, mag |-> UZero]}
    \cup {[neg |-> neg, mag |-> mag] :
            neg \in BOOLEAN, mag \in {<<0, 0, LimbBase - 1, LimbBase - 1>>, UTwo32, UMaxInt64}}
    \cup {[neg |-> TRUE, mag |-> UMinInt64]}

\* Texts with what they are: a decimal number below 2^32 with its value, a
\* decimal number of 2^32 or more, or no decimal number.
DigitsTexts ==
    {[text |-> <<"0">>, is |-> "decimal", value |-> UZero],
     [text |-> <<"6">>, is |-> "decimal", value |-> U(6)],
     [text |-> <<"8">>, is |-> "decimal", value |-> U(8)],
     [text |-> <<"1", "2">>, is |-> "decimal", value |-> U(12)],
     [text |-> <<"0", "0", "7">>, is |-> "decimal", value |-> U(7)],
     [text |-> <<"6", "5", "5", "3", "6">>, is |-> "decimal", value |-> <<0, 0, 1, 0>>],
     [text |-> <<"4", "2", "9", "4", "9", "6", "7", "2", "9", "5">>, is |-> "decimal",
      value |-> <<0, 0, LimbBase - 1, LimbBase - 1>>],
     [text |-> <<"4", "2", "9", "4", "9", "6", "7", "2", "9", "6">>, is |-> "too large",
      value |-> UTwo32],
     [text |-> <<"1", "8", "4", "4", "6", "7", "4", "4", "0", "7", "3", "7", "0", "9", "5",
                 "5", "1", "6", "1", "5">>, is |-> "too large", value |-> UMaxUint64],
     [text |-> <<"1", "8", "4", "4", "6", "7", "4", "4", "0", "7", "3", "7", "0", "9", "5",
                 "5", "1", "6", "1", "6">>, is |-> "too large", value |-> UZero],
     [text |-> <<>>, is |-> "no number", value |-> UZero],
     [text |-> <<"x">>, is |-> "no number", value |-> UZero],
     [text |-> <<"-", "1">>, is |-> "no number", value |-> UZero],
     [text |-> <<"+", "6">>, is |-> "no number", value |-> UZero],
     [text |-> <<"6", " ">>, is |-> "no number", value |-> UZero],
     [text |-> <<"1", "_", "0">>, is |-> "no number", value |-> UZero],
     [text |-> <<"6", ".", "0">>, is |-> "no number", value |-> UZero],
     [text |-> <<"0", "x", "6">>, is |-> "no number", value |-> UZero]}

InitDigits ==
    /\ key = Nil
    /\ peer = Nil
    /\ now = 0
    /\ last \in {[op |-> "int", given |-> n] : n \in DigitsInts}
                \cup {[op |-> "text", given |-> t] : t \in DigitsTexts}

\* digits := NewDigitsInt(n)
DoNewDigitsInt ==
    /\ last.op = "int"
    /\ last' = [op |-> "NewDigitsInt", given |-> last.given, res |-> NewDigitsInt(last.given)]
    /\ UNCHANGED <<key, peer, now>>

\* digits := NewDigitsStr(s)
DoNewDigitsStr ==
    /\ last.op = "text"
    /\ last' = [op |-> "NewDigitsStr", given |-> last.given,
                res |-> NewDigitsStr(last.given.text)]
    /\ UNCHANGED <<key, peer, now>>

\* digits.OTPDigits()
DoOTPDigits ==
    /\ last.op \in {"NewDigitsInt", "NewDigitsStr"}
    /\ last' = [op |-> "OTPDigits", from |-> last.op, given |-> last.given,
                digits |-> last.res, res |-> OTPDigits(last.res)]
    /\ UNCHANGED <<key, peer, now>>

\* digits.String()
DoDigitsString ==
    /\ last.op \in {"NewDigitsInt", "NewDigitsStr"}
    /\ last' = [op |-> "String", from |-> last.op, given |-> last.given,
                digits |-> last.res, res |-> DigitsString(last.res)]
    /\ UNCHANGED <<key, peer, now>>

NextDigits ==
    \/ DoNewDigitsInt
    \/ DoNewDigitsStr
    \/ DoOTPDigits
    \/ DoDigitsString

SpecDigits == InitDigits /\ [][NextDigits]_vars

\* ------------------------------------------------------------------------
\*  A caller persisting its key and loading it back
\* ------------------------------------------------------------------------

\* Option lists GenerateKey accepts: secret sizes around the minimum of
\* Check, zero periods and digits, and the other algorithms.
RoundTripOptions ==
    {<<SmallSecret>>, <<WithSecretSize(U(15))>>, <<WithSecretSize(UZero)>>,
     <<SmallSecret, WithPeriod(UZero)>>, <<SmallSecret, WithDigits(UZero)>>,
     <<SmallSecret, WithDigits(DigitsEight), WithAlgorithm(cSHA512), WithPeriod(U(60))>>,
     <<SmallSecret, WithAlgorithm(cMD5), WithSkew(UZero)>>,
     <<SmallSecret, WithSecretQueryFirst(TRUE)>>, <<SmallSecret, WithSecretQueryFirst(FALSE)>>,
     <<SmallSecret, WithECDH(ecdhPrivateKey("P256", 1),
                             ecdhPublicKey(ecdhPrivateKey("P256", 2)), <<"c", "1">>)>>}

\* Options a caller of GenerateKeyCustom fills in by hand.
RoundTripCustomOptions ==
    {[SetDefault(ZeroOptions) EXCEPT !.Issuer = aIssuer, !.AccountName = aAccount,
                                     !.SecretSize = U(16), !.Digits = digits,
                                     !.Period = period, !.Algorithm = algo] :
        digits \in {DigitsSix, U(7)}, period \in {U(30), UTwo32, UMaxUint64},
        algo \in {cSHA256, sSHA1Lower}}

\* Keys a caller writes down as a struct literal: names with white space at
\* an end or a line break inside, an algorithm in lower case or followed by
\* a space, numbers at and above 2^32, and secrets of no, of 16 and of 50
\* bytes.
KeyLiterals ==
    {[Secret |-> [i \in 1..size |-> (5 * i) % 256],
      Options |-> [ZeroOptions EXCEPT !.Issuer = issuer, !.AccountName = accountName,
                                      !.Algorithm = algo, !.Digits = digits,
                                      !.Period = period,
                                      !.SecretSize = IF wide THEN UTwo32 ELSE U(size),
                                      !.Skew = skew]] :
        issuer \in {aIssuer, <<" ", "a">>, <<"a", "\n", "b">>},
        accountName \in {aAccount, <<"b", ":", "c", " ">>},
        algo \in {cSHA1, sSHA1Lower, <<"S", "H", "A", "1", " ">>},
        digits \in {DigitsSix, UTwo32}, period \in {U(30), UTwo32},
        skew \in {UZero, UMaxUint64}, size \in {0, 16, 50},
        wide \in BOOLEAN}

\* key := &Key{Secret: secret, Options: options}
DoNewKey(k) ==
    /\ key = Nil
    /\ key' = k
    /\ last' = [op |-> "NewKey"]
    /\ UNCHANGED <<peer, now>>

\* uri := key.URI()
DoURI ==
    /\ key # Nil
    /\ last.op \in {"GenerateKey", "GenerateKeyCustom"}
    /\ last' = [op |-> "URI", uri |-> KeyURI(key), call |-> last]
    /\ UNCHANGED <<key, peer, now>>

\* pemKey, err := key.PEM()
DoPEM ==
    /\ key # Nil
    /\ last.op \in {"GenerateKey", "GenerateKeyCustom", "NewKey"}
    /\ last' = [op |-> "PEM", res |-> KeyPEM(key)]
    /\ UNCHANGED <<key, peer, now>>

\* peer, err := GenKeyFromPEM(pemKey), on the text the caller's key rendered
DoGenKeyFromPEM ==
    LET returned(r) ==
            /\ peer' = IF r.ok THEN r.val ELSE Nil
            /\ last' = [op |-> "GenKeyFromPEM", ok |-> r.ok,
                        err |-> IF r.ok THEN <<>> ELSE r.err, from |-> last]
            /\ UNCHANGED <<key, now>>
    IN  /\ last.op = "PEM"
        /\ last.res.ok
        /\ returned(GenKeyFromPEM(last.res.val))

NextRoundTrip ==
    \/ \E issuer \in {aIssuer, <<"a", " ", "b">>, <<"a", ":", "b">>},
          accountName \in {aAccount, <<"b", "@", "c">>, <<"b", ":", "c">>},
          opts \in RoundTripOptions :
            DoGenerateKey(issuer, accountName, opts, 1)
    \/ \E options \in RoundTripCustomOptions : DoGenerateKeyCustom(options, 1)
    \/ \E k \in KeyLiterals : DoNewKey(k)
    \/ DoURI
    \/ \E rnd \in {2} : DoGenKeyFromURI(rnd)
    \/ DoPEM
    \/ DoGenKeyFromPEM

SpecRoundTrip == Init /\ [][NextRoundTrip]_vars

\* ------------------------------------------------------------------------
\*  A caller that sets one ECDH key, both or none, and hands on the URI
\*  of its key
\* ------------------------------------------------------------------------

\* Options filled in by hand with each ECDH key set or nil, on one curve
\* and on two, with a SecretSize of zero and of sixteen.
EcdhKeyOptions ==
    {[SetDefault(ZeroOptions) EXCEPT !.Issuer = issuer, !.AccountName = aAccount,
                                     !.ecdhPrivateKey = priv, !.ecdhPublicKey = pub,
                                     !.ecdhCtx = <<"c", "1">>, !.SecretSize = size] :
        issuer \in {aIssuer, <<>>}, priv \in PrivateKeys \cup {Nil},
        pub \in PublicKeys \cup {Nil}, size \in {UZero, U(16)}}

\* The option lists of the same callers.
EcdhKeyOptionLists ==
    {<<WithECDH(priv, pub, <<"c", "1">>), WithSecretSize(size)>> :
        priv \in PrivateKeys \cup {Nil}, pub \in PublicKeys \cup {Nil},
        size \in {UZero, U(16)}}

NextEcdhKeys ==
    \/ \E options \in EcdhKeyOptions, rnd \in RandSeeds : DoGenerateKeyCustom(options, rnd)
    \/ \E opts \in EcdhKeyOptionLists, rnd \in RandSeeds :
            DoGenerateKey(aIssuer, aAccount, opts, rnd)
    \/ DoURI
    \/ \E rnd \in RandSeeds : DoGenKeyFromURI(rnd)

SpecEcdhKeys == Init /\ [][NextEcdhKeys]_vars

\* ------------------------------------------------------------------------
\*  A caller loading a key from a file of several PEM blocks
\* ------------------------------------------------------------------------

\* The most pieces a file holds.
MaxBlocks == 3

\* Two keys as GenKeyFromPEM loads them.
PEMKeys ==
    {[Secret |-> [i \in 1..16 |-> (n * i) % 256],
      Options |-> [ZeroOptions EXCEPT !.Issuer = aIssuer, !.AccountName = aAccount,
                                      !.Algorithm = cSHA1, !.Digits = DigitsSix,
                                      !.Period = U(30), !.SecretSize = U(16),
                                      !.Skew = U(n)]] : n \in {1, 2}}

\* The pieces of a file: the TOTP block of a key, a block of another type,
\* a line that belongs to no block, and a BEGIN line without its block.
PEMPieces ==
    {[key |-> k, text |-> KeyPEM(k).val] : k \in PEMKeys}
    \cup {[key |-> Nil, text |-> text] :
            text \in {pemEncodeToMemory([Type |-> <<"P", "U", "B", "L", "I", "C", " ", "K", "E", "Y">>,
                                         Headers |-> <<>>, Bytes |-> <<48, 130, 2, 34>>]),
                      <<"j", "u", "n", "k", "\n">>,
                      Tail(pemStart) \o BlockTypeTOTP \o pemEndOfLine \o <<"\n">>}}

\* The caller holds the text of a file: up to MaxBlocks pieces in a row.
InitPEM ==
    /\ key = Nil
    /\ peer = Nil
    /\ now = 0
    /\ last \in {[op |-> "PEM", pieces |-> pieces,
                   res |-> Ok(Concat([i \in DOMAIN pieces |-> pieces[i].text]))] :
                    pieces \in UNION {[1..n -> PEMPieces] : n \in 0..MaxBlocks}}

NextPEM == DoGenKeyFromPEM

SpecPEM == InitPEM /\ [][NextPEM]_vars

\* ------------------------------------------------------------------------
\*  The calls GenKeyFromPEM makes of itself
\* ------------------------------------------------------------------------

\* The most calls on the stack.
MaxCalls == 6

\* The texts of the files: up to MaxBlocks pieces in a row.
PEMTexts ==
    {Concat([i \in DOMAIN pieces |-> pieces[i].text]) :
        pieces \in UNION {[1..n -> PEMPieces] : n \in 0..MaxBlocks}}

\* What a call of GenKeyFromPEM does with each of the texts and what it
\* returns, worked out once.
PEMCalls ==
    {[pemKey |-> text, call |-> GenKeyFromPEMCall(text), returns |-> GenKeyFromPEM(text)] :
        text \in PEMTexts}

CallOn(text) == CHOOSE c \in PEMCalls : c.pemKey = text

\* The outermost call is running on the text of a file.
InitPEMCalls ==
    /\ key = Nil
    /\ peer = Nil
    /\ now = 0
    /\ last \in {[op |-> "GenKeyFromPEM", pemKey |-> text, text |-> text,
                   caller |-> <<>>, depth |-> 1, skipped |-> <<>>] : text \in PEMTexts}

\* The running call has skipped a block of another type and calls
\* GenKeyFromPEM(string(rest)).
DoCallItself ==
    LET call(step) ==
            /\ step.does = "call"
            /\ last' = [op |-> "GenKeyFromPEM", pemKey |-> last.pemKey, text |-> step.next,
                        caller |-> last.text, depth |-> last.depth + 1,
                        skipped |-> Append(last.skipped, step.skipped)]
            /\ UNCHANGED <<key, peer, now>>
    IN  /\ last.op = "GenKeyFromPEM"
        /\ last.depth < MaxCalls
        /\ call(CallOn(last.text).call)

\* The running call has found the TOTP block and returns its Key, which
\* every call below it returns in turn.
DoReturnKey ==
    /\ last.op = "GenKeyFromPEM"
    /\ CallOn(last.text).call.does = "return key"
    /\ peer' = CallOn(last.text).returns.val
    /\ last' = [op |-> "returned", pemKey |-> last.pemKey, ok |-> TRUE, err |-> <<>>,
                depth |-> last.depth, skipped |-> last.skipped]
    /\ UNCHANGED <<key, now>>

\* The running call has found no block, or a last block of another type,
\* and returns the error, which every call below it returns in turn.
DoReturnError ==
    /\ last.op = "GenKeyFromPEM"
    /\ CallOn(last.text).call.does = "return error"
    /\ last' = [op |-> "returned", pemKey |-> last.pemKey, ok |-> FALSE,
                err |-> CallOn(last.text).returns.err,
                depth |-> last.depth, skipped |-> last.skipped]
    /\ UNCHANGED <<key, peer, now>>

NextPEMCalls ==
    \/ DoCallItself
    \/ DoReturnKey
    \/ DoReturnError

SpecPEMCalls == InitPEMCalls /\ [][NextPEMCalls]_vars

\* A call that runs goes on running: the goroutine is not stopped.
SpecPEMCallsFair == SpecPEMCalls /\ WF_vars(NextPEMCalls)

\* ------------------------------------------------------------------------
\*  A caller filling in Options by hand and through option functions
\* ------------------------------------------------------------------------

\* Options with each field zero or set, the algorithm also to a name that
\* is not supported.
OptionsLiterals ==
    {[ZeroOptions EXCEPT !.Issuer = issuer, !.AccountName = accountName,
                         !.Algorithm = algo, !.Digits = digits, !.Period = period,
                         !.SecretSize = size, !.Skew = skew] :
        issuer \in {<<>>, aIssuer}, accountName \in {<<>>, aAccount},
        algo \in {<<>>, cSHA256, <<"X">>}, digits \in {UZero, DigitsEight},
        period \in {UZero, U(60)}, size \in {UZero, U(16)}, skew \in {UZero, U(2)}}

\* opts := &Options{...}, or a nil pointer.
InitOptions ==
    /\ key = Nil
    /\ peer = Nil
    /\ now = 0
    /\ last \in {[op |-> "Options", opts |-> opts, n |-> 0] :
                    opts \in OptionsLiterals \cup {Nil}}

\* opts.SetDefault(), once and once more.
DoSetDefault ==
    /\ last.op \in {"Options", "SetDefault"}
    /\ last.opts # Nil
    /\ last.n < 2
    /\ last' = [op |-> "SetDefault", before |-> last.opts, opts |-> SetDefault(last.opts),
                n |-> last.n + 1]
    /\ UNCHANGED <<key, peer, now>>

\* Lists of option functions without and with one that fails, at the
\* start, in the middle, and two of them.
OptionLists ==
    {<<>>,
     <<WithSecretSize(U(16))>>,
     <<WithAlgorithm(<<"X">>)>>,
     <<WithPeriod(U(60)), WithAlgorithm(<<"X">>), WithSkew(U(2))>>,
     <<WithAlgorithm(cSHA256), WithAlgorithm(<<"Y">>), WithAlgorithm(<<"X">>)>>,
     <<WithSecretSize(U(16)), WithAlgorithm(<<"s", "h", "a", "1">>)>>}

\* One call of each option function, and WithAlgorithm also with a name
\* that is not supported.
OptionFunctions ==
    {WithAlgorithm(cSHA256), WithAlgorithm(<<"X">>), WithDigits(DigitsEight),
     WithECDH(Nil, Nil, <<>>),
     WithECDH(ecdhPrivateKey("P256", 1), ecdhPublicKey(ecdhPrivateKey("P256", 2)), <<"c">>),
     WithECDHKDF("commonKDF"), WithPeriod(U(60)), WithSecretSize(U(16)),
     WithSecretQueryFirst(TRUE), WithSecretQueryFirst(FALSE), WithSkew(UZero)}

\* err := fn(opts)
DoOption(fn) ==
    /\ last.op = "Options"
    /\ last' = [op |-> "Option", fn |-> fn, before |-> last.opts,
                res |-> ApplyOption(fn, last.opts)]
    /\ UNCHANGED <<key, peer, now>>

NextOptions ==
    \/ DoSetDefault
    \/ \E fn \in OptionFunctions : DoOption(fn)
    \/ \E issuer \in {<<>>, aIssuer}, accountName \in {<<>>, aAccount}, opts \in OptionLists :
            DoGenerateKey(issuer, accountName, opts, 1)

SpecOptions == InitOptions /\ [][NextOptions]_vars

\* ------------------------------------------------------------------------
\*  A caller validating passcodes it was handed, for keys of any Options
\* ------------------------------------------------------------------------

\* Options written down by hand or loaded from a PEM text: algorithms that
\* are supported and not, six and eight digits, and two skews.
ValidateOptions ==
    {[ZeroOptions EXCEPT !.Issuer = aIssuer, !.AccountName = aAccount,
                         !.Algorithm = algo, !.Digits = digits, !.Period = U(30),
                         !.SecretSize = U(16), !.Skew = skew] :
        algo \in {cSHA1, cSHA512, sSHA1Lower, <<"X">>, <<>>},
        digits \in {DigitsSix, DigitsEight}, skew \in {UZero, U(1)}}

\* The secret of the keys, and another one.
ValidateSecret == [i \in 1..16 |-> (5 * i) % 256]

OtherSecret == [i \in 1..16 |-> (3 * i) % 256]

ValidateKeys == {[Secret |-> ValidateSecret, Options |-> options] : options \in ValidateOptions}

\* The times of generation and validation: in the first period and in the
\* third.
ValidateTimes == {0, 65}

\* The passcodes a caller is handed: the ones of the two secrets at the two
\* times, with six and with eight digits, and one of three characters.
GivenPasscodes ==
    {[secret |-> secret, counter |-> TimeCounter(t, U(30)), digits |-> digits,
      algorithm |-> algorithm] :
        secret \in {ValidateSecret, OtherSecret}, t \in ValidateTimes,
        digits \in {otpDigitsSix, otpDigitsEight},
        algorithm \in {otpAlgorithmSHA1, otpAlgorithmSHA512}}
    \cup {[secret |-> <<>>, counter |-> 0, digits |-> 3, algorithm |-> otpAlgorithmSHA1]}

\* Secrets in text form: the Base32 of the secret, the empty text and a text
\* that is no Base32.
SecretTexts == {Base32Encode(ValidateSecret), <<>>, <<"1", "!">>}

\* ok := key.ValidateCustom(passcode, validationTime), on a passcode the
\* caller was handed.
DoValidateGiven(passcode, validationTime) ==
    LET returned(r) ==
            /\ last' = IF r.ok
                       THEN [op |-> "ValidateGiven", passcode |-> passcode,
                             validationTime |-> validationTime, valid |-> r.val]
                       ELSE [op |-> "ValidateGiven", passcode |-> passcode,
                             validationTime |-> validationTime, panic |-> r.err]
            /\ UNCHANGED <<key, peer, now>>
    IN  /\ key # Nil
        /\ last.op = "NewKey"
        /\ returned(KeyValidateCustom(key, passcode, validationTime))

\* ok := key.Validate(passcode), on a passcode the caller was handed.
DoValidateGivenNow(passcode) ==
    LET returned(r) ==
            /\ last' = IF r.ok
                       THEN [op |-> "ValidateGivenNow", passcode |-> passcode,
                             validationTime |-> now, valid |-> r.val]
                       ELSE [op |-> "ValidateGivenNow", passcode |-> passcode,
                             validationTime |-> now, panic |-> r.err]
            /\ UNCHANGED <<key, peer, now>>
    IN  /\ key # Nil
        /\ last.op = "NewKey"
        /\ returned(KeyValidate(key, passcode, now))

\* ok := ValidateCustom(passcode, secret, validationTime, options), by a
\* caller that holds no key.
DoValidateCustomFn(passcode, secret, validationTime, options) ==
    LET returned(r) ==
            /\ last' = IF r.ok
                       THEN [op |-> "ValidateCustomFn", passcode |-> passcode,
                             secret |-> secret, validationTime |-> validationTime,
                             options |-> options, valid |-> r.val]
                       ELSE [op |-> "ValidateCustomFn", passcode |-> passcode,
                             secret |-> secret, validationTime |-> validationTime,
                             options |-> options, panic |-> r.err]
            /\ UNCHANGED <<key, peer, now>>
    IN  /\ key = Nil
        /\ last.op = "none"
        /\ returned(ValidateCustom(passcode, secret, validationTime, options))

NextValidate ==
    \/ \E k \in ValidateKeys : DoNewKey(k)
    \/ \E t \in ValidateTimes : DoPassCodeCustom(t)
    \/ DoPassCode
    \/ \E t \in ValidateTimes : DoValidateCustom(t)
    \/ DoValidate
    \/ \E passcode \in GivenPasscodes, t \in ValidateTimes : DoValidateGiven(passcode, t)
    \/ \E passcode \in GivenPasscodes : DoValidateGivenNow(passcode)
    \/ \E passcode \in GivenPasscodes, secret \in SecretTexts, t \in ValidateTimes,
          options \in ValidateOptions :
            DoValidateCustomFn(passcode, secret, t, options)

SpecValidate == Init /\ [][NextValidate]_vars

\* ------------------------------------------------------------------------
\*  A caller whose Key has any number of digits
\* ------------------------------------------------------------------------

\* Digits fields: the two choices and their neighbours, zero, twelve,
\* 2^32 - 1, 2^32 + 8 and MaxUint64.
DigitCounts ==
    {UZero, U(1), DigitsSix, U(7), DigitsEight, U(9), U(12),
     <<0, 0, LimbBase - 1, LimbBase - 1>>, <<0, 1, 0, 8>>, UMaxUint64}

\* Keys written down by hand or loaded from a URI or a PEM text, which
\* take their Digits as they find them.
DigitCountKeys ==
    {[Secret |-> ValidateSecret,
      Options |-> [ZeroOptions EXCEPT !.Issuer = aIssuer, !.AccountName = aAccount,
                                      !.Algorithm = algo, !.Digits = digits,
                                      !.Period = U(30), !.SecretSize = U(16),
                                      !.Skew = skew]] :
        algo \in {cSHA1, cSHA512}, digits \in DigitCounts, skew \in {UZero, U(1)}}

\* The passcodes the caller is handed, and one of twelve digits.
DigitCountPasscodes ==
    GivenPasscodes
    \cup {[secret |-> ValidateSecret, counter |-> 0, digits |-> 12,
            algorithm |-> otpAlgorithmSHA1]}

NextDigitCount ==
    \/ \E k \in DigitCountKeys : DoNewKey(k)
    \/ \E t \in ValidateTimes : DoPassCodeCustom(t)
    \/ DoPassCode
    \/ \E t \in ValidateTimes : DoValidateCustom(t)
    \/ DoValidate
    \/ \E passcode \in DigitCountPasscodes, t \in ValidateTimes :
          DoValidateGiven(passcode, t)
    \/ \E passcode \in DigitCountPasscodes : DoValidateGivenNow(passcode)

SpecDigitCount == Init /\ [][NextDigitCount]_vars

\* ------------------------------------------------------------------------
\*  A caller writing a secret down in text form and reading it back
\* ------------------------------------------------------------------------

\* The most bytes of the short secrets.
MaxSecretLen == 3

\* Secrets of up to MaxSecretLen bytes, with zero bytes at any place, and
\* secrets of 16 and 20 bytes, with and without zero bytes in front.
SecretValues ==
    UNION {[1..n -> {0, 1, 61, 62, 255}] : n \in 0..MaxSecretLen}
    \cup {[i \in 1..n |-> IF i <= zeros THEN 0 ELSE (37 * i) % 256] :
            n \in {16, 20}, zeros \in {0, 1, 2}}

InitSecret ==
    /\ key = Nil
    /\ peer = Nil
    /\ now = 0
    /\ last \in {[op |-> "Secret", secret |-> secret] : secret \in SecretValues}

\* The caller has the text form text of its secret.
Wrote(op, text) ==
    /\ last.op = "Secret"
    /\ last' = [op |-> op, secret |-> last.secret, text |-> text]
    /\ UNCHANGED <<key, peer, now>>

\* The caller has read the secret back from the text: res.
ReadBack(from, op, res) ==
    /\ last.op = from
    /\ last' = [op |-> op, secret |-> last.secret, text |-> last.text, res |-> res]
    /\ UNCHANGED <<key, peer, now>>

DoBase32 == Wrote("Base32", SecretBase32(last.secret))

DoBase62 == Wrote("Base62", SecretBase62(last.secret))

DoBase64 == Wrote("Base64", SecretBase64(last.secret))

DoNewSecretBase32 == ReadBack("Base32", "NewSecretBase32", NewSecretBase32(last.text))

DoNewSecretBase62 == ReadBack("Base62", "NewSecretBase62", NewSecretBase62(last.text))

DoNewSecretBase64 == ReadBack("Base64", "NewSecretBase64", NewSecretBase64(last.text))

NextSecret ==
    \/ DoBase32
    \/ DoBase62
    \/ DoBase64
    \/ DoNewSecretBase32
    \/ DoNewSecretBase62
    \/ DoNewSecretBase64

SpecSecret == InitSecret /\ [][NextSecret]_vars

\* ------------------------------------------------------------------------
\*  Goroutines calling the reading methods of one Key
\* ------------------------------------------------------------------------

\* The levels of github.com/boombuler/barcode/qr: L, M, Q, H.
FixLevel7 == 0

FixLevel15 == 1

FixLevel25 == 2

FixLevel30 == 3

\* FixLevel.isValid()
FixLevelIsValid(f) == f \in {FixLevel30, FixLevel25, FixLevel15, FixLevel7}

\* Key.String()
KeyString(k) == KeyURI(k)

\* Key.QRCode(fixLevel)
KeyQRCode(k, fixLevel) ==
    IF ~FixLevelIsValid(fixLevel) THEN Fail("unsupported fix level: " \o ToString(fixLevel))
    ELSE Ok([URI |-> KeyURI(k), Level |-> fixLevel])

\* The package variables of key.go.
PackageVariables == [totpGenerate |-> "totp.Generate", pemEncodeToMemory |-> "pem.EncodeToMemory"]

\* What a call of the method leaves in the memory it shares with the other
\* calls, with Validate and ValidateCustom filling in the defaults of the
\* Options of the Key in place.
Leaves_defaultsInPlace(method, k, package) ==
    [key |-> IF method \in {"Validate", "ValidateCustom"}
             THEN [k EXCEPT !.Options = SetDefault(@)] ELSE k,
     package |-> package]

\* What a call of the method leaves in the memory it shares with the other
\* calls: the Key behind its receiver and the package variables. None of
\* the eight methods assigns to a field of the Key or to a package
\* variable; Validate and ValidateCustom hand the Options on by value.
Leaves(method, k, package) == [key |-> k, package |-> package]

\* What the call returns for the Secret and the Options it has read and the
\* clock it has read.
Returns(call, k, timeNow) ==
    CASE call.method = "PassCode" -> KeyPassCode(k, timeNow)
      [] call.method = "PassCodeCustom" -> KeyPassCodeCustom(k, call.time)
      [] call.method = "Validate" -> KeyValidate(k, call.passcode, timeNow)
      [] call.method = "ValidateCustom" -> KeyValidateCustom(k, call.passcode, call.time)
      [] call.method = "URI" -> KeyURI(k)
      [] call.method = "String" -> KeyString(k)
      [] call.method = "PEM" -> KeyPEM(k)
      [] call.method = "QRCode" -> KeyQRCode(k, call.fixLevel)

\* What each method reads before it returns.
Reads(method) ==
    {"Secret", "Options"} \cup (IF method \in {"PassCode", "Validate"} THEN {"clock"} ELSE {})

Goroutines == {"a", "b"}

\* The Keys the goroutines share: SHA1 with six digits and no skew, SHA512
\* with eight digits and a skew of one.
SharedKeys ==
    {k \in ValidateKeys :
        \/ k.Options.Algorithm = cSHA1 /\ k.Options.Digits = DigitsSix /\ k.Options.Skew = UZero
        \/ k.Options.Algorithm = cSHA512 /\ k.Options.Digits = DigitsEight
              /\ k.Options.Skew = U(1)}

\* The calls a goroutine makes on the Key; the passcode is the one of the
\* Key at time 0.
CallsOn(k) ==
    LET calls(passcode) ==
            {[method |-> m, passcode |-> <<>>, time |-> 0, fixLevel |-> FixLevel15] :
                m \in {"PassCode", "PassCodeCustom", "URI", "String", "PEM", "QRCode"}}
            \cup {[method |-> m, passcode |-> passcode, time |-> 0, fixLevel |-> FixLevel15] :
                    m \in {"Validate", "ValidateCustom"}}
            \cup {[method |-> "QRCode", passcode |-> <<>>, time |-> 0,
                    fixLevel |-> FixLevel30 + 1]}
    IN  calls(KeyPassCodeCustom(k, 0).val)

\* A goroutine that is in no call.
Idle == [pc |-> "idle"]

\* The clock stands one second before the end of the first period.
InitConcurrent ==
    /\ key \in SharedKeys
    /\ peer = Nil
    /\ now = UToNat(OptionPeriodDefault) - 1
    /\ last = [op |-> "goroutines", key |-> key, package |-> PackageVariables,
               goroutine |-> [g \in Goroutines |-> Idle]]

\* The goroutine g is at step to.
Goes(g, to) ==
    /\ last' = [last EXCEPT !.goroutine[g] = to]
    /\ UNCHANGED <<key, peer, now>>

\* g calls a method of the Key.
DoCall(g, call) ==
    /\ last.op = "goroutines"
    /\ last.goroutine[g].pc = "idle"
    /\ Goes(g, [pc |-> "called", call |-> call, read |-> {}, secret |-> <<>>,
                options |-> ZeroOptions, clock |-> 0])

\* g reads k.Secret.
DoReadSecret(g) ==
    /\ last.op = "goroutines"
    /\ last.goroutine[g].pc = "called"
    /\ "Secret" \notin last.goroutine[g].read
    /\ Goes(g, [last.goroutine[g] EXCEPT !.read = @ \cup {"Secret"}, !.secret = key.Secret])

\* g reads k.Options.
DoReadOptions(g) ==
    /\ last.op = "goroutines"
    /\ last.goroutine[g].pc = "called"
    /\ "Options" \notin last.goroutine[g].read
    /\ Goes(g, [last.goroutine[g] EXCEPT !.read = @ \cup {"Options"},
                                          !.options = key.Options])

\* g reads the clock: time.Now().
DoReadClock(g) ==
    /\ last.op = "goroutines"
    /\ last.goroutine[g].pc = "called"
    /\ "clock" \in Reads(last.goroutine[g].call.method) \ last.goroutine[g].read
    /\ Goes(g, [last.goroutine[g] EXCEPT !.read = @ \cup {"clock"}, !.clock = now])

\* The call of g returns.
DoReturn(g) ==
    LET returned(t, left) ==
            /\ key' = left.key
            /\ last' = [last EXCEPT
                            !.package = left.package,
                            !.goroutine[g] =
                                [pc |-> "returned", call |-> t.call, clock |-> t.clock,
                                 res |-> Returns(t.call,
                                                 [Secret |-> t.secret, Options |-> t.options],
                                                 t.clock)]]
            /\ UNCHANGED <<peer, now>>
    IN  /\ last.op = "goroutines"
        /\ last.goroutine[g].pc = "called"
        /\ last.goroutine[g].read = Reads(last.goroutine[g].call.method)
        /\ returned(last.goroutine[g], Leaves(last.goroutine[g].call.method, key, last.package))

\* One second passes, into the second period.
DoSecondPasses ==
    /\ last.op = "goroutines"
    /\ now < UToNat(OptionPeriodDefault)
    /\ now' = now + 1
    /\ UNCHANGED <<key, peer, last>>

NextConcurrent ==
    \/ \E g \in Goroutines, call \in CallsOn(key) : DoCall(g, call)
    \/ \E g \in Goroutines : DoReadSecret(g)
    \/ \E g \in Goroutines : DoReadOptions(g)
    \/ \E g \in Goroutines : DoReadClock(g)
    \/ \E g \in Goroutines : DoReturn(g)
    \/ DoSecondPasses

SpecConcurrent == InitConcurrent /\ [][NextConcurrent]_vars

\* ------------------------------------------------------------------------
\*  The validation window
\* ------------------------------------------------------------------------

Abs(n) == IF n < 0 THEN 0 - n ELSE n

\* |floor(t'/P) - floor(t/P)| of the last validation, P the key's period.
CounterDistance ==
    Abs((last.validationTime \div UToNat(key.Options.Period))
        - (last.genTime \div UToNat(key.Options.Period)))

\* C1: for a key with period P > 0 and skew S, the passcode PassCodeCustom(t)
\* returned is accepted by ValidateCustom at every time t' with
\* |floor(t'/P) - floor(t/P)| <= S.
C1_ValidInsideWindow ==
    (/\ last.op = "ValidateCustom"
     /\ key.Options.Period # UZero
     /\ CounterDistance <= UToNat(key.Options.Skew))
        => last.valid

\* A passcode of a key with period 30 and skew 1, generated in one period and
\* accepted 29 seconds later in the next one.
C1_Witness ==
    /\ last.op = "ValidateCustom"
    /\ key.Options.Period = U(30)
    /\ key.Options.Skew = U(1)
    /\ last.validationTime = last.genTime + 29
    /\ CounterDistance = 1
    /\ last.valid

\* C2: for a key with period P > 0 and skew S, the passcode PassCodeCustom(t)
\* returned is rejected by ValidateCustom at every time t' with
\* |floor(t'/P) - floor(t/P)| > S.
C2_InvalidOutsideWindow ==
    (/\ last.op = "ValidateCustom"
     /\ key.Options.Period # UZero
     /\ CounterDistance > UToNat(key.Options.Skew))
        => ~last.valid

\* A passcode of a key with period 30 and skew 1 rejected 65 seconds after
\* the time it was generated for.
C2_Witness ==
    /\ last.op = "ValidateCustom"
    /\ key.Options.Period = U(30)
    /\ key.Options.Skew = U(1)
    /\ last.validationTime = last.genTime + 65
    /\ ~last.valid

\* The option list sets no skew.
NoSkewOption(opts) == \A i \in DOMAIN opts : opts[i].fn # "WithSkew"

\* C8: the default skew is at least 1, and with a skew of at least 1 the
\* passcode PassCode returned at time t is accepted by Validate at every
\* later time t' with t' - t < Period.
C8_ValidWithinOnePeriod ==
    /\ (last.op = "GenerateKey" /\ last.ok /\ NoSkewOption(last.opts))
            => UToNat(key.Options.Skew) >= 1
    /\ (/\ last.op = "Validate"
        /\ UToNat(key.Options.Skew) >= 1
        /\ last.validationTime - last.genTime < UToNat(key.Options.Period))
            => last.valid

\* A key with the default skew and a period of 3: the passcode of the last
\* second of a period accepted two seconds later, in the next period.
C8_Witness ==
    /\ last.op = "Validate"
    /\ key.Options.Skew = OptionSkewDefault
    /\ key.Options.Period = U(3)
    /\ last.genTime % 3 = 2
    /\ last.validationTime = last.genTime + 2
    /\ last.valid

\* ------------------------------------------------------------------------
\*  ECDH key agreement
\* ------------------------------------------------------------------------

\* The two keys come from one key agreement: each party combined its own
\* private key with the public key of the other, on one curve, under the same
\* context and the same Algorithm, Digits, Period and SecretSize.
SameAgreement ==
    /\ key # Nil /\ peer # Nil
    /\ key.Options.ecdhPrivateKey # Nil /\ peer.Options.ecdhPrivateKey # Nil
    /\ key.Options.ecdhPublicKey = ecdhPublicKey(peer.Options.ecdhPrivateKey)
    /\ peer.Options.ecdhPublicKey = ecdhPublicKey(key.Options.ecdhPrivateKey)
    /\ key.Options.ecdhCtx = peer.Options.ecdhCtx
    /\ key.Options.Algorithm = peer.Options.Algorithm
    /\ key.Options.Digits = peer.Options.Digits
    /\ key.Options.Period = peer.Options.Period
    /\ key.Options.SecretSize = peer.Options.SecretSize

\* C3: the keys two parties generate from one key agreement hold the same
\* secret and give the same passcode for the same time, whatever their
\* issuers and account names.
C3_EcdhAgreement ==
    SameAgreement =>
        /\ key.Secret = peer.Secret
        /\ \A t \in {0, 29, 30} : KeyPassCodeCustom(key, t) = KeyPassCodeCustom(peer, t)

\* The WithECDH option of the last GenerateKey call names keys of two curves.
CurveMismatch ==
    /\ last.opts[1].fn = "WithECDH"
    /\ last.opts[1].localKey # Nil /\ last.opts[1].remoteKey # Nil
    /\ last.opts[1].localKey.curve # last.opts[1].remoteKey.curve

C10_KdfFailureFails ==
    (/\ last.op = "GenerateKey"
     /\ last.opts[1].fn = "WithECDH"
     /\ last.opts[1].localKey.curve = last.opts[1].remoteKey.curve
     /\ last.opts[2].fn = "WithSecretSize"
     /\ (last.opts[2].size = UZero \/ UAboveMaxInt(last.opts[2].size))
     /\ last.calls # <<>>)
        => /\ ~last.ok
           /\ key = Nil
           /\ last.err[1] = "failed to derive key from ECDH shared secret"
           /\ "totpGenerate" \notin Range(last.calls)

\* ------------------------------------------------------------------------
\*  otpauth URIs
\* ------------------------------------------------------------------------

\* The fields the URI carries agree between the caller's key and the key
\* loaded back from its URI.
SameURIFields ==
    /\ peer.Options.Issuer = key.Options.Issuer
    /\ peer.Options.AccountName = key.Options.AccountName
    /\ peer.Options.Algorithm = key.Options.Algorithm
    /\ peer.Options.Digits = key.Options.Digits
    /\ peer.Options.Period = key.Options.Period
    /\ peer.Secret = key.Secret

\* C4 as claimed: for every key GenerateKey or GenerateKeyCustom returned,
\* GenKeyFromURI(k.URI()) succeeds and returns a key with the same Issuer,
\* AccountName, Algorithm, Digits, Period and Secret.
C4_URIRoundTripAlways ==
    (last.op = "GenKeyFromURI" /\ last.from = "URI") => (last.ok /\ SameURIFields)

\* The key can be told from its URI: no colon in the issuer, a period and
\* digits other than zero, a secret of 16 bytes or more.
URIRepresentable(k) ==
    /\ Index(k.Options.Issuer, <<":">>) = 0
    /\ k.Options.Period # UZero
    /\ k.Options.Digits # UZero
    /\ Len(SecretBytes(k.Secret)) >= 16

\* C4: for every key GenerateKey or GenerateKeyCustom returned whose issuer
\* holds no colon, whose Period and Digits are not zero and whose secret has
\* at least 16 bytes, GenKeyFromURI(k.URI()) succeeds and returns a key with
\* the same Issuer, AccountName, Algorithm, Digits, Period and Secret.
C4_URIRoundTrip ==
    (last.op = "GenKeyFromURI" /\ last.from = "URI" /\ URIRepresentable(key))
        => (last.ok /\ SameURIFields)

\* A key with a space in its issuer, a colon in its account name, eight
\* digits, SHA512 and a period of 60 loaded back from its URI.
C4_Witness ==
    /\ last.op = "GenKeyFromURI" /\ last.from = "URI" /\ last.ok
    /\ key.Options.Issuer = <<"a", " ", "b">>
    /\ key.Options.AccountName = <<"b", ":", "c">>
    /\ key.Options.Digits = DigitsEight
    /\ key.Options.Algorithm = cSHA512
    /\ key.Options.Period = U(60)
    /\ SameURIFields

\* The issuer of the label the URI was written with: the text before its
\* first colon, nothing without a colon.
LabelIssuer(parts) ==
    IF \E i \in DOMAIN parts.label : parts.label[i] = ":"
    THEN SubSeq(parts.label, 1,
                (CHOOSE i \in DOMAIN parts.label :
                    parts.label[i] = ":" /\ \A j \in 1..(i - 1) : parts.label[j] # ":") - 1)
    ELSE <<>>

\* The issuer parameter the URI was written with, empty when absent.
QueryIssuer(parts) == IF parts.issuer = Absent THEN <<>> ELSE parts.issuer

\* C6: Issuer() returns the issuer when the label's issuer and the issuer
\* parameter are both non-empty and identical, and the empty string when
\* either is missing or they differ.
C6_IssuerNeedsBoth ==
    last.op = "Issuer" =>
        IF /\ LabelIssuer(last.parts) # <<>>
           /\ QueryIssuer(last.parts) # <<>>
           /\ LabelIssuer(last.parts) = QueryIssuer(last.parts)
        THEN last.res = QueryIssuer(last.parts)
        ELSE last.res = <<>>

\* Issuer() on a URI whose label says issuer a and whose parameter says c.
C6_Witness ==
    /\ last.op = "Issuer"
    /\ last.parts.label = <<"a", ":", "b">>
    /\ last.parts.issuer = <<"c">>
    /\ last.res = <<>>

\* The requirements C7 lists, on the URI of the last call.
CheckRequirements ==
    /\ last.parts.scheme = sOtpauth
    /\ last.parts.host = sTotp
    /\ URIIssuer(last.uri) # <<>>
    /\ URIAccountName(last.uri) # <<>>
    /\ last.parts.secret # Absent
    /\ Base32Decode(last.parts.secret).ok
    /\ Base32Decode(last.parts.secret).val # <<>>
    /\ last.parts.algorithm \in {cMD5, cSHA1, cSHA256, cSHA512}
    /\ URIDigits(last.uri) # UZero
    /\ URIPeriod(last.uri) # UZero
    /\ Len(Base32Decode(last.parts.secret).val) >= 16

\* C7: Check() returns nil exactly when the scheme is otpauth, the host is
\* totp, Issuer() and AccountName() are non-empty, the secret parameter
\* decodes to a non-empty value of at least 16 bytes, the algorithm is one of
\* MD5, SHA1, SHA256 and SHA512, and Digits() and Period() are not zero.
C7_CheckNilIffWellFormed ==
    last.op = "Check" => ((last.err = <<>>) <=> CheckRequirements)

\* Check() refusing a URI whose only flaw is a secret of 8 bytes.
C7_Witness ==
    /\ last.op = "Check"
    /\ last.parts = [scheme |-> sOtpauth, host |-> sTotp, label |-> <<"a", ":", "b">>,
                     issuer |-> <<"a">>, secret |-> ShortSecret, algorithm |-> cSHA1,
                     digits |-> <<"6">>, period |-> <<"3", "0">>]
    /\ last.err = <<"secret is too short. it should be at least 16 bytes">>

\* ------------------------------------------------------------------------
\*  PEM
\* ------------------------------------------------------------------------

PlainText(text) == TrimSpace(text) = text /\ \A i \in DOMAIN text : text[i] # "\n"

\* The key can be told from its PEM text: plain names, an algorithm in upper
\* case, numbers below 2^32, no ECDH keys or context and no choice of the
\* secret as the first parameter of the URI.
PEMRepresentable(k) ==
    /\ PlainText(k.Options.Issuer)
    /\ PlainText(k.Options.AccountName)
    /\ PlainText(k.Options.Algorithm)
    /\ k.Options.Algorithm = ToUpper(k.Options.Algorithm)
    /\ \A n \in {k.Options.Digits, k.Options.Period, k.Options.SecretSize, k.Options.Skew} :
            n[1] = 0 /\ n[2] = 0
    /\ k.Options.ecdhPrivateKey = Nil
    /\ k.Options.ecdhPublicKey = Nil
    /\ k.Options.ecdhCtx = <<>>
    /\ ~k.Options.prependSecretInURI

LastOption(name) ==
    IF last.op = "GenerateKey" /\ \E i \in DOMAIN last.opts : last.opts[i].fn = name
    THEN last.opts[CHOOSE i \in DOMAIN last.opts : last.opts[i].fn = name]
    ELSE Nil

\* What commonKDF returns for the shared secret, the context and the
\* SecretSize of the last GenerateKey call.
LastCommonKDF ==
    commonKDF(ECDH(LastOption("WithECDH").localKey, LastOption("WithECDH").remoteKey).val,
              LastOption("WithECDH").context, LastOption("WithSecretSize").size)

\* C11: with WithECDHKDF and WithECDH the secret of the generated key is
\* exactly what the custom KDF returns for the shared secret, the context
\* and SecretSize, an error of that KDF fails the generation, and the
\* BLAKE3 derivation runs only when no custom KDF is set.
C11_CustomKdfDerivesSecret ==
    (LastOption("WithECDHKDF") # Nil /\ LastOption("WithECDH") # Nil)
        => /\ IF LastCommonKDF.ok
              THEN last.ok /\ SecretBytes(key.Secret) = LastCommonKDF.val
              ELSE ~last.ok /\ key = Nil
           /\ "DeriveKey" \notin Range(last.calls)

\* ------------------------------------------------------------------------
\*  The order of the query of Key.URI()
\* ------------------------------------------------------------------------

\* The query of the URI the last call rendered.
LastQuery == Cut(last.uri, <<"?">>)[2]

\* The key was made by GenerateKey with WithSecretQueryFirst(false).
SortedQueryChosen ==
    /\ last.call.op = "GenerateKey"
    /\ \E i \in DOMAIN last.call.opts : last.call.opts[i] = WithSecretQueryFirst(FALSE)

\* C12: URI() renders the query with secret as the first parameter and the
\* other parameters in alphabetical order after it, unless
\* WithSecretQueryFirst(false) was applied: then every parameter, secret
\* included, is in alphabetical order.
C12_SecretFirstInQuery ==
    last.op = "URI" =>
        IF SortedQueryChosen
        THEN /\ HasPrefix(LastQuery, queryKey.algorithm \o <<"=">>)
             /\ HasSuffix(LastQuery, <<"&">> \o queryKey.secret \o <<"=">>
                                         \o SecretBase32(key.Secret))
        ELSE HasPrefix(LastQuery, queryKey.secret \o <<"=">> \o SecretBase32(key.Secret)
                                      \o <<"&">> \o queryKey.algorithm \o <<"=">>)

\* ------------------------------------------------------------------------
\*  Numbers of a URI
\* ------------------------------------------------------------------------

\* The text of the parameter the last call read.
LastNumberText == IF last.op = "Digits" THEN last.parts.digits ELSE last.parts.period

\* C13: Digits() and Period() return 0 whenever the query value is
\* non-numeric, empty or 2^32 and more, and never a value that does not fit
\* in 32 bits.
C13_NumbersFitIn32Bits ==
    (last.op \in {"Digits", "Period"} /\ last.parts # Nil)
        => /\ last.res[1] = 0 /\ last.res[2] = 0
           /\ LastNumberText \in BigNumbers \cup BadNumbers => last.res = UZero

\* ------------------------------------------------------------------------
\*  Malformed URIs
\* ------------------------------------------------------------------------

\* The zero value of the result type of each accessor.
ZeroValue(method) ==
    IF method = "Secret" THEN Nil
    ELSE IF method \in {"Digits", "Period"} THEN UZero
    ELSE <<>>

\* C14: for a URI url.Parse refuses, every accessor returns the zero value
\* of its type, and Check() returns an error.
C14_MalformedGivesZeroValues ==
    (last.op # "input" /\ ~Parse(last.uri).ok)
        => IF last.op = "Check" THEN last.err # <<>>
           ELSE last.res = ZeroValue(last.op)

\* Each malformed URI has been read by each of the accessors and by Check.
C14_Witness ==
    /\ last.op \in {"Check", "Secret", "Parameters", "Label", "Type", "Digits"}
    /\ last.uri \in MalformedURIs
    /\ ~Parse(last.uri).ok

\* ------------------------------------------------------------------------
\*  Files of several PEM blocks
\* ------------------------------------------------------------------------

\* The positions of the TOTP blocks in the file that was loaded.
TOTPBlocks == {i \in DOMAIN last.from.pieces : last.from.pieces[i].key # Nil}

\* C15: GenKeyFromPEM returns the key of the first TOTP SECRET KEY block of
\* the text, whatever other blocks precede it, and without such a block it
\* returns no key and the error "failed to decode PEM block containing TOTP
\* secret key".
C15_FirstTOTPBlock ==
    last.op = "GenKeyFromPEM"
        => IF TOTPBlocks = {}
           THEN /\ ~last.ok
                /\ peer = Nil
                /\ last.err = <<"failed to decode PEM block containing TOTP secret key">>
           ELSE /\ last.ok
                /\ peer = last.from.pieces[CHOOSE i \in TOTPBlocks :
                                               \A j \in TOTPBlocks : i <= j].key

\* A key loaded from a file whose first pieces are other blocks and whose
\* third piece is its TOTP block.
C15_Witness ==
    /\ last.op = "GenKeyFromPEM"
    /\ last.ok
    /\ TOTPBlocks = {3}
    /\ \E i \in {1, 2} : HasPrefix(last.from.pieces[i].text, Tail(pemStart))

\* ------------------------------------------------------------------------
\*  Default values of Options
\* ------------------------------------------------------------------------

\* The value SetDefault gives a field that is zero.
DefaultOf(field) ==
    CASE field = "Algorithm" -> <<"S", "H", "A", "1">>
      [] field = "Period" -> U(30)
      [] field = "SecretSize" -> U(128)
      [] field = "Digits" -> U(6)
      [] field = "Skew" -> U(1)

FailingOptions ==
    {i \in DOMAIN last.opts :
        /\ last.opts[i].fn = "WithAlgorithm"
        /\ last.opts[i].algo \notin {<<"M", "D", "5">>, <<"S", "H", "A", "1">>,
                                      <<"S", "H", "A", "2", "5", "6">>,
                                      <<"S", "H", "A", "5", "1", "2">>}}

\* C17: with an empty issuer or account name, or with an option that fails,
\* GenerateKey returns no key and an error and calls nothing that generates
\* a secret; the error is "issuer and accountName are required" in the
\* first case and "failed to apply custom options: unsupported algorithm: X"
\* for the first failing option, WithAlgorithm(X), in the second.
C17_GenerateKeyRefuses ==
    (last.op = "GenerateKey"
     /\ (last.issuer = <<>> \/ last.accountName = <<>> \/ FailingOptions # {}))
        => /\ ~last.ok
           /\ key = Nil
           /\ last.calls = <<>>
           /\ IF last.issuer = <<>> \/ last.accountName = <<>>
              THEN last.err[Len(last.err)] = "issuer and accountName are required"
              ELSE last.err =
                       <<"failed to apply custom options",
                         "unsupported algorithm: "
                             \o ToString(ToUpper(
                                    last.opts[CHOOSE i \in FailingOptions :
                                                 \A j \in FailingOptions : i <= j].algo))>>

\* GenerateKey refused the second of three options, the first of two that
\* fail.
C17_Witness ==
    /\ last.op = "GenerateKey"
    /\ ~last.ok
    /\ last.issuer # <<>>
    /\ last.accountName # <<>>
    /\ FailingOptions = {2, 3}

\* ------------------------------------------------------------------------
\*  Option functions on a nil pointer
\* ------------------------------------------------------------------------

\* C18: every option function returns an error when it is applied to a nil
\* Options, without a panic, and an option function that returns an error
\* leaves the Options as they were.
C18_OptionsRejectNil ==
    last.op = "Option"
        => /\ last.before = Nil
                => ~last.res.ok /\ last.res.err = <<"options is nil">>
           /\ ~last.res.ok => last.res.val = last.before

\* ------------------------------------------------------------------------
\*  Unsupported algorithms and the passcode primitive
\* ------------------------------------------------------------------------

\* The algorithm of the caller's key is none of the four supported ones.
KeyAlgorithmUnsupported ==
    key.Options.Algorithm \notin {<<"M", "D", "5">>, <<"S", "H", "A", "1">>,
                                  <<"S", "H", "A", "2", "5", "6">>,
                                  <<"S", "H", "A", "5", "1", "2">>}

\* C19: for a key whose algorithm is none of the four, PassCode and
\* PassCodeCustom return an error and Validate and ValidateCustom return
\* false, and none of them ends in the panic of the primitive that was
\* handed the unsupported value.
C19_UnsupportedNeverReachesPrimitive ==
    (key # Nil /\ KeyAlgorithmUnsupported)
        => /\ last.op \in {"PassCode", "PassCodeCustom"}
                => ~last.res.ok /\ last.res.err # <<"panic: unreached">>
           /\ last.op \in {"Validate", "ValidateCustom", "ValidateGiven", "ValidateGivenNow"}
                => "valid" \in DOMAIN last /\ ~last.valid

\* ------------------------------------------------------------------------
\*  ValidateCustom and the report of the primitive
\* ------------------------------------------------------------------------

\* What the primitive reports for the arguments of the last call of the
\* function ValidateCustom.
PrimitiveReport ==
    totpValidateCustom(last.passcode, last.secret, last.validationTime,
                       [Period |-> last.options.Period, Skew |-> last.options.Skew,
                        Digits |-> OTPDigits(last.options.Digits),
                        Algorithm |-> OTPAlgorithm(last.options.Algorithm)])

\* What the function ValidateCustom does with the arguments the method
\* Key.ValidateCustom was called with.
FunctionOutcome ==
    ValidateCustom(last.passcode, SecretBase32(key.Secret), last.validationTime, key.Options)

C21_SecretRoundTrips ==
    /\ last.op \in {"NewSecretBase32", "NewSecretBase64"}
            => last.res.ok /\ last.res.val = last.secret
    /\ last.op = "NewSecretBase62"
            => /\ last.res.ok
               /\ \E zeros \in 0..Len(last.secret) :
                      /\ \A i \in 1..zeros : last.secret[i] = 0
                      /\ zeros < Len(last.secret) => last.secret[zeros + 1] # 0
                      /\ last.res.val = SubSeq(last.secret, zeros + 1, Len(last.secret))

\* A secret of 20 bytes that starts with two zero bytes, read back from its
\* Base62 text without them.
C21_Witness ==
    /\ last.op = "NewSecretBase62"
    /\ Len(last.secret) = 20
    /\ last.secret[2] = 0
    /\ Len(last.res.val) = 18

\* ------------------------------------------------------------------------
\*  The parameters of a URI in both orders
\* ------------------------------------------------------------------------

\* The key=value pieces of an encoded query.
EncodedPieces(text) == IF text = <<>> THEN <<>> ELSE Split(text, <<"&">>)

\* The key of an encoded piece.
EncodedKey(piece) == Cut(piece, <<"=">>)[1]

\* How often the piece is among the pieces.
CountOf(piece, pieces) == Cardinality({i \in DOMAIN pieces : pieces[i] = piece})

\* The pieces are in the order of their keys, those of the key skip aside.
InKeyOrder(pieces, skip) ==
    \A i, j \in DOMAIN pieces :
        (i < j /\ EncodedKey(pieces[i]) # skip /\ EncodedKey(pieces[j]) # skip)
            => ~StringLess(EncodedKey(pieces[j]), EncodedKey(pieces[i]))

\* The pieces of the key come before all others.
KeyFirst(pieces, name) ==
    \A i, j \in DOMAIN pieces :
        (i < j /\ EncodedKey(pieces[j]) = name) => EncodedKey(pieces[i]) = name

\* The encoded pieces are the pairs of the URI, each as often as the URI
\* has it, with no plus sign in them.
SamePairs(pieces, given) ==
    /\ Len(pieces) = Cardinality({i \in DOMAIN given : given[i].out # <<>>})
    /\ \A i \in DOMAIN given :
          given[i].out # <<>>
              => CountOf(given[i].out, pieces)
                   = Cardinality({j \in DOMAIN given : given[j].out = given[i].out})
    /\ \A i \in DOMAIN pieces : "+" \notin Range(pieces[i])

\* C22: Parameters(true) writes the secret pairs first and the others in
\* the order of their keys, Parameters(false) writes all pairs in the order
\* of their keys; both write the same pairs, those of the URI, with %20 and
\* never a plus sign for a space, and the empty string for a URI without
\* parameters.
C22_ParametersOrder ==
    LET ordered(pieces, secretFirst) ==
            IF secretFirst
            THEN KeyFirst(pieces, queryKey.secret) /\ InKeyOrder(pieces, queryKey.secret)
            ELSE InKeyOrder(pieces, <<"?">>)
        right(text, secretFirst) ==
            /\ ordered(EncodedPieces(text), secretFirst)
            /\ SamePairs(EncodedPieces(text), last.pieces)
            /\ (\A i \in DOMAIN last.pieces : last.pieces[i].out = <<>>) => text = <<>>
    IN  /\ last.op = "Parameters" => right(last.res, last.secretFirst)
        /\ last.op = "ParametersAgain"
              => /\ right(last.secretFirst, TRUE)
                 /\ right(last.alphabetical, FALSE)
                 /\ \A piece \in Range(EncodedPieces(last.secretFirst))
                              \cup Range(EncodedPieces(last.alphabetical)) :
                        CountOf(piece, EncodedPieces(last.secretFirst))
                            = CountOf(piece, EncodedPieces(last.alphabetical))

\* A URI whose query has a pair with a plus sign for a space, then a pair
\* with a key in front of "secret", then the secret: the two orders differ
\* and the space is written %20 in both.
C22_Witness ==
    /\ last.op = "ParametersAgain"
    /\ Len(last.pieces) = 3
    /\ last.pieces[1].raw = <<"t", "=", "a", "+", "b">>
    /\ last.pieces[3].raw = <<"s", "e", "c", "r", "e", "t", "=", "A", "B">>
    /\ last.pieces[2].raw = <<"b", "=", "%", "2", "B">>
    /\ last.secretFirst = <<"s", "e", "c", "r", "e", "t", "=", "A", "B", "&",
                            "b", "=", "%", "2", "B", "&", "t", "=", "a", "%", "2", "0", "b">>
    /\ last.alphabetical = <<"b", "=", "%", "2", "B", "&",
                             "s", "e", "c", "r", "e", "t", "=", "A", "B", "&",
                             "t", "=", "a", "%", "2", "0", "b">>

\* ------------------------------------------------------------------------
\*  Names, Algorithms and ids
\* ------------------------------------------------------------------------

\* The ids of the four supported algorithms.
SupportedIDs == {otpAlgorithmSHA1, otpAlgorithmSHA256, otpAlgorithmSHA512, otpAlgorithmMD5}

C24_DigitsConstructors ==
    /\ last.op = "NewDigitsInt"
          => last.res = IF last.given.neg THEN <<0, 0, 0, 6>> ELSE last.given.mag
    /\ last.op = "NewDigitsStr"
          => last.res = IF last.given.is = "decimal" THEN last.given.value ELSE UZero

\* Twelve has been carried through by NewDigitsInt.
C24_Witness ==
    /\ last.op = "NewDigitsInt"
    /\ last.given = [neg |-> FALSE, mag |-> U(12)]
    /\ last.res = U(12)

\* ------------------------------------------------------------------------
\*  Concurrent calls of the reading methods
\* ------------------------------------------------------------------------

\* C25: the calls of PassCode, PassCodeCustom, Validate, ValidateCustom,
\* URI, String, PEM and QRCode leave the Key and the package variables as
\* they were, and each call, however its steps interleave with those of
\* another call, returns what it returns alone on the Key at the time it
\* read from the clock.
C25_ReadingMethodsInterleave ==
    last.op = "goroutines"
        => /\ key = last.key
           /\ last.package = PackageVariables
           /\ \A g \in Goroutines :
                 last.goroutine[g].pc = "returned"
                     => last.goroutine[g].res
                          = Returns(last.goroutine[g].call, last.key, last.goroutine[g].clock)

\* a has read the Secret and not yet the Options for the passcode of the
\* second period while b has returned from a Validate that read the clock in
\* the first.
C25_Witness ==
    /\ last.op = "goroutines"
    /\ last.goroutine["a"].pc = "called"
    /\ last.goroutine["a"].call.method = "PassCode"
    /\ last.goroutine["a"].read = {"Secret", "clock"}
    /\ last.goroutine["a"].clock = UToNat(OptionPeriodDefault)
    /\ last.goroutine["b"].pc = "returned"
    /\ last.goroutine["b"].call.method = "Validate"
    /\ last.goroutine["b"].clock = UToNat(OptionPeriodDefault) - 1
    /\ last.goroutine["b"].res = Ok(TRUE)

\* ------------------------------------------------------------------------
\*  The ranges of the numbers of a URI
\* ------------------------------------------------------------------------

\* The largest number of digits and the longest period, in seconds, that
\* the tests of Digits() and Period() let through.
MaxURIDigits == 20

MaxURIPeriod == 86400

RECURSIVE DecimalValue(_, _)
\* The value of a text of decimal digits, onto acc.
DecimalValue(text, acc) ==
    IF text = <<>> THEN acc ELSE DecimalValue(Tail(text), 10 * acc + DigitValue[Head(text)])

\* The text is a decimal number from 1 to max.
InRange(text, max) ==
    /\ text # <<>>
    /\ Len(text) <= 5
    /\ \A i \in DOMAIN text : IsDigit(text[i])
    /\ DecimalValue(text, 0) \in 1..max

\* C26: Digits() returns the digits value only when it lies in 1..20 and
\* Period() the period value only when it lies in 1..86400; for every
\* other value they return 0.
C26_NumbersInRange ==
    (last.op \in {"Digits", "Period"} /\ last.parts # Nil)
        => IF InRange(LastNumberText,
                      IF last.op = "Digits" THEN MaxURIDigits ELSE MaxURIPeriod)
           THEN last.res = U(DecimalValue(LastNumberText, 0))
           ELSE last.res = UZero

\* ------------------------------------------------------------------------
\*  The number of digits of the passcodes
\* ------------------------------------------------------------------------

\* The number of digits the methods of the Key work with.
DigitCount == IF key.Options.Digits = <<0, 0, 0, 8>> THEN 8 ELSE 6

\* C27: the passcodes PassCode and PassCodeCustom return have eight digits
\* when Options.Digits is 8 and six for every other value of it, and
\* Validate and ValidateCustom accept a passcode of that many digits only.
C27_SixOrEightDigits ==
    /\ last.op \in {"PassCode", "PassCodeCustom"}
          => last.res.ok /\ PasscodeLen(last.res.val) = DigitCount
    /\ last.op \in {"ValidateGiven", "ValidateGivenNow", "Validate", "ValidateCustom"}
          => /\ "valid" \in DOMAIN last
             /\ last.valid => PasscodeLen(last.passcode) = DigitCount
             /\ (/\ last.passcode.secret = key.Secret
                 /\ last.passcode.algorithm = OTPAlgorithm(key.Options.Algorithm)
                 /\ last.passcode.counter = TimeCounter(last.validationTime, key.Options.Period)
                 /\ PasscodeLen(last.passcode) = DigitCount) => last.valid

\* A Key with a Digits of twelve has accepted a passcode of six digits.
C27_Witness ==
    /\ key # Nil
    /\ key.Options.Digits = U(12)
    /\ last.op = "ValidateGiven"
    /\ PasscodeLen(last.passcode) = 6
    /\ last.valid

\* ------------------------------------------------------------------------
\*  Derived and random secrets
\* ------------------------------------------------------------------------

\* The secret a Key derived from the key agreement of its Options holds.
DerivedSecret(options) ==
    blake3DeriveKey(options.ecdhCtx,
                    ECDH(options.ecdhPrivateKey, options.ecdhPublicKey).val,
                    UToNat(options.SecretSize))

\* The secrets of SecretSize bytes the random source yields, 20 bytes for a
\* SecretSize of zero.
RandomSecrets(options) ==
    {RandRead(rnd, IF options.SecretSize = UZero THEN 20 ELSE UToNat(options.SecretSize)) :
        rnd \in RandSeeds}

\* C28: a Key that GenerateKeyCustom returns holds the secret derived from
\* the ECDH shared secret exactly when both the private key and the peer
\* public key are set; with either of them nil the call fails for no other
\* reason than the same call without the keys, and the Key holds a random
\* secret.
C28_DerivedExactlyWhenBothKeys ==
    LET bothSet(options) == options.ecdhPrivateKey # Nil /\ options.ecdhPublicKey # Nil
        right(options) ==
            IF bothSet(options)
            THEN last.ok => (key.Secret = DerivedSecret(options)
                             /\ key.Secret \notin RandomSecrets(options))
            ELSE /\ last.ok = (options.Issuer # <<>>)
                 /\ last.ok => key.Secret \in RandomSecrets(options)
    IN  /\ last.op = "GenerateKeyCustom" => right(last.options)
        /\ (last.op = "GenerateKey" /\ last.ok) => right(key.Options)

\* ------------------------------------------------------------------------
\*  The size of the secret
\* ------------------------------------------------------------------------

\* C29: the SecretSize of every Key GenerateKey, GenerateKeyCustom and
\* GenKeyFromURI return is the number of bytes of its Secret, and the Secret
\* of a Key from a URI is the one the URI holds.
C29_SecretSizeIsLength ==
    /\ (last.op \in {"GenerateKey", "GenerateKeyCustom"} /\ last.ok)
          => key.Options.SecretSize = U(Len(SecretBytes(key.Secret)))
    /\ (last.op = "GenKeyFromURI" /\ last.ok)
          => /\ peer.Options.SecretSize = U(Len(SecretBytes(peer.Secret)))
             /\ peer.Secret = URISecret(last.uri)

\* ------------------------------------------------------------------------
\*  Termination of GenKeyFromPEM
\* ------------------------------------------------------------------------

\* A call GenKeyFromPEM made of itself was made after a block of another
\* type was skipped, with a text that is not empty and is a proper end of
\* the text of its caller.
CalledOnShorterRest ==
    (last.op = "GenKeyFromPEM" /\ last.depth > 1)
        => /\ last.text # <<>>
           /\ Len(last.text) < Len(last.caller)
           /\ HasSuffix(last.caller, last.text)
           /\ Len(last.skipped) = last.depth - 1
           /\ last.skipped[last.depth - 1] # BlockTypeTOTP

\* GenKeyFromPEM has returned what it returns for the text: a Key, or the
\* decode error.
ReturnedKeyOrError ==
    /\ last.op = "returned"
    /\ last.ok = GenKeyFromPEM(last.pemKey).ok
    /\ IF last.ok THEN peer = GenKeyFromPEM(last.pemKey).val
       ELSE peer = Nil
            /\ last.err = <<"failed to decode PEM block containing TOTP secret key">>

\* C30: GenKeyFromPEM terminates on every text: it calls itself only after
\* it skipped a block of another type, on a text that is not empty and
\* strictly shorter, and in the end it returns a Key or the decode error.
C30_GenKeyFromPEMTerminates == []CalledOnShorterRest /\ <>ReturnedKeyOrError

\* GenKeyFromPEM has returned the Key of the third block from its third
\* call, after two blocks of another type.
C30_Witness ==
    /\ last.op = "returned"
    /\ last.ok
    /\ last.depth = 3
    /\ Len(last.skipped) = 2

====
